---- MODULE Spec2Model ----
(***************************************************************************)
(* azureSMTPwithOAuth: the SMTP session loop (handleSMTPConnection), the   *)
(* OAuth2 token cache (getCachedOAuth2Token, StartTokenCacheCleanup), the  *)
(* Graph submission with retry (sendMailGraphAPI, doWithRetry) and the     *)
(* accept loop with its connection semaphore (program.run, program.Stop).  *)
(*                                                                         *)
(* Three specifications share the module:                                  *)
(*   Spec          one SMTP session with the token cache it reads          *)
(*   SpecCache     concurrent callers of getCachedOAuth2Token + sweeper    *)
(*   SpecListener  the accept loop, the semaphore and the handlers         *)
(*                                                                         *)
(* Text is a sequence of one-character strings, so that the prefix tests,  *)
(* trimming, base64 decoding and address extraction are computed as the    *)
(* code computes them.                                                     *)
(***************************************************************************)
EXTENDS Integers, Sequences, FiniteSets, TLC

\* ------------------------------------------------------------------ text

CR == "\r"
LF == "\n"
CRLF == <<CR, LF>>

LowerLetters == <<"a", "b", "c", "d", "e", "f", "g", "h", "i", "j", "k", "l", "m", "n", "o", "p", "q", "r", "s", "t", "u", "v", "w", "x", "y", "z">>
UpperLetters == <<"A", "B", "C", "D", "E", "F", "G", "H", "I", "J", "K", "L", "M", "N", "O", "P", "Q", "R", "S", "T", "U", "V", "W", "X", "Y", "Z">>

\* unicode.ToUpper on one (ASCII) character
UpperChar(c) ==
    IF \E i \in 1..26 : LowerLetters[i] = c
    THEN UpperLetters[CHOOSE i \in 1..26 : LowerLetters[i] = c]
    ELSE c

\* strings.ToUpper
ToUpper(s) == [i \in 1..Len(s) |-> UpperChar(s[i])]

\* strings.HasPrefix
HasPrefix(s, p) == Len(s) >= Len(p) /\ SubSeq(s, 1, Len(p)) = p

\* the first index from i on at which s holds c; 0 when there is none
IndexFrom(s, c, i) ==
    LET at == {j \in i..Len(s) : s[j] = c}
    IN  IF at = {} THEN 0 ELSE CHOOSE j \in at : \A k \in at : j <= k

\* strings.Index for a one-character needle; 0 stands for Go's -1 (indices are 1-based)
IndexChar(s, c) == IndexFrom(s, c, 1)

\* the last index up to i at which s holds c; 0 when there is none
LastIndexFrom(s, c, i) ==
    LET at == {j \in 1..i : s[j] = c}
    IN  IF at = {} THEN 0 ELSE CHOOSE j \in at : \A k \in at : j >= k

\* strings.LastIndex for a one-character needle; 0 stands for Go's -1
LastIndexChar(s, c) == LastIndexFrom(s, c, Len(s))

\* strings.Contains for a one-character needle
ContainsChar(s, c) == IndexChar(s, c) # 0

\* unicode.IsSpace on the ASCII range
IsSpace(c) == c \in {" ", "\t", "\n", "\r", "\f"}

\* the number of characters of s from index i on that lie in cutset without a break
RECURSIVE LeadFrom(_, _, _)
LeadFrom(s, cutset, i) ==
    IF i > Len(s) \/ s[i] \notin cutset THEN 0
    ELSE 1 + LeadFrom(s, cutset, i + 1)

\* the number of leading characters of s that lie in cutset
LeadIn(s, cutset) == LeadFrom(s, cutset, 1)

\* the number of characters of s from index i down that lie in cutset without a break
RECURSIVE TrailFrom(_, _, _)
TrailFrom(s, cutset, i) ==
    IF i < 1 \/ s[i] \notin cutset THEN 0
    ELSE 1 + TrailFrom(s, cutset, i - 1)

\* the number of trailing characters of s that lie in cutset
TrailIn(s, cutset) == TrailFrom(s, cutset, Len(s))

\* strings.TrimRight(s, cutset)
TrimRight(s, cutset) == SubSeq(s, 1, Len(s) - TrailIn(s, cutset))

\* strings.TrimSpace
TrimSpace(s) ==
    LET lead == LeadIn(s, {" ", "\t", "\n", "\r", "\f"})
        rest == SubSeq(s, lead + 1, Len(s))
    IN  SubSeq(rest, 1, Len(rest) - TrailIn(rest, {" ", "\t", "\n", "\r", "\f"}))

\* strings.IndexFunc(s, unicode.IsSpace); 0 stands for Go's -1
RECURSIVE IndexSpaceFrom(_, _)
IndexSpaceFrom(s, i) ==
    IF i > Len(s) THEN 0
    ELSE IF IsSpace(s[i]) THEN i
    ELSE IndexSpaceFrom(s, i + 1)

IndexSpace(s) == IndexSpaceFrom(s, 1)

\* strings.Fields: the maximal runs of non-space characters, in order
RECURSIVE Fields(_)
Fields(s) ==
    LET t == SubSeq(s, LeadIn(s, {" ", "\t", "\n", "\r", "\f"}) + 1, Len(s))
    IN  IF t = <<>> THEN <<>>
        ELSE LET n == IF IndexSpace(t) # 0 THEN IndexSpace(t) - 1 ELSE Len(t)
             IN  <<SubSeq(t, 1, n)>> \o Fields(SubSeq(t, n + 1, Len(t)))

\* strings.SplitN(s, ":", 2): one part when s holds no ":", else the text before
\* and the text after the first ":"
SplitN2(s, c) ==
    IF IndexChar(s, c) = 0 THEN <<s>>
    ELSE <<SubSeq(s, 1, IndexChar(s, c) - 1), SubSeq(s, IndexChar(s, c) + 1, Len(s))>>

\* strings.ReplaceAll(s, "\r\n", "\n")
RECURSIVE ReplaceCRLF(_)
ReplaceCRLF(s) ==
    IF s = <<>> THEN <<>>
    ELSE IF Len(s) >= 2 /\ s[1] = CR /\ s[2] = LF
         THEN <<LF>> \o ReplaceCRLF(SubSeq(s, 3, Len(s)))
         ELSE <<s[1]>> \o ReplaceCRLF(Tail(s))

\* strings.ReplaceAll(s, "\r", "\n")
ReplaceCR(s) == [i \in 1..Len(s) |-> IF s[i] = CR THEN LF ELSE s[i]]

\* strings.ReplaceAll(s, "\n", "\r\n")
RECURSIVE ReplaceLF(_)
ReplaceLF(s) ==
    IF s = <<>> THEN <<>>
    ELSE (IF s[1] = LF THEN CRLF ELSE <<s[1]>>) \o ReplaceLF(Tail(s))

\* the three ReplaceAll calls that rebuild the message with CRLF line endings
NormalizeLineEndings(s) == ReplaceLF(ReplaceCR(ReplaceCRLF(s)))

\* ---------------------------------------------------------------- base64

B64Alphabet == <<"A", "B", "C", "D", "E", "F", "G", "H", "I", "J", "K", "L", "M", "N", "O", "P", "Q", "R", "S", "T", "U", "V", "W", "X", "Y", "Z", "a", "b", "c", "d", "e", "f", "g", "h", "i", "j", "k", "l", "m", "n", "o", "p", "q", "r", "s", "t", "u", "v", "w", "x", "y", "z", "0", "1", "2", "3", "4", "5", "6", "7", "8", "9", "+", "/">>

\* the printable ASCII characters, code 32 first (code 96, the grave accent, is
\* written as an apostrophe: the lexer of the tools does not take it in a string)
Ascii == <<" ", "!", "\"", "#", "$", "%", "&", "'", "(", ")", "*", "+", ",", "-", ".", "/", "0", "1", "2", "3", "4", "5", "6", "7", "8", "9", ":", ";", "<", "=", ">", "?", "@", "A", "B", "C", "D", "E", "F", "G", "H", "I", "J", "K", "L", "M", "N", "O", "P", "Q", "R", "S", "T", "U", "V", "W", "X", "Y", "Z", "[", "\\", "]", "^", "_", "'", "a", "b", "c", "d", "e", "f", "g", "h", "i", "j", "k", "l", "m", "n", "o", "p", "q", "r", "s", "t", "u", "v", "w", "x", "y", "z", "{", "|", "}", "~">>

\* string(b) for one byte: the printable characters as themselves, any other
\* byte as the text of its number after a backslash
ByteChar(b) == IF b >= 32 /\ b <= 126 THEN Ascii[b - 31] ELSE "\\" \o ToString(b)

IsB64Char(c) == \E i \in 1..64 : B64Alphabet[i] = c

B64Value(c) == (CHOOSE i \in 1..64 : B64Alphabet[i] = c) - 1

\* one 4-character quantum of padded standard base64; last says whether
\* padding may appear in it
B64QuantumOk(q, last) ==
    /\ IsB64Char(q[1]) /\ IsB64Char(q[2])
    /\ \/ IsB64Char(q[3]) /\ IsB64Char(q[4])
       \/ last /\ IsB64Char(q[3]) /\ q[4] = "="
       \/ last /\ q[3] = "=" /\ q[4] = "="

B64QuantumBytes(q) ==
    LET v1 == B64Value(q[1])
        v2 == B64Value(q[2])
        b1 == v1 * 4 + (v2 \div 16)
    IN  IF q[3] = "=" THEN <<b1>>
        ELSE LET v3 == B64Value(q[3])
                 b2 == (v2 % 16) * 16 + (v3 \div 4)
             IN  IF q[4] = "=" THEN <<b1, b2>>
                 ELSE <<b1, b2, (v3 % 4) * 64 + B64Value(q[4])>>

\* base64.StdEncoding.DecodeString accepts s: padded quanta of four characters
\* (CR and LF in the input are skipped by the decoder)
RECURSIVE B64Ok(_)
B64Ok(s) ==
    IF s = <<>> THEN TRUE
    ELSE /\ Len(s) >= 4
         /\ B64QuantumOk(SubSeq(s, 1, 4), Len(s) = 4)
         /\ B64Ok(SubSeq(s, 5, Len(s)))

RECURSIVE B64Bytes(_)
B64Bytes(s) ==
    IF s = <<>> THEN <<>>
    ELSE B64QuantumBytes(SubSeq(s, 1, 4)) \o B64Bytes(SubSeq(s, 5, Len(s)))

\* decodeBase64WithError: [err, val]; val is "" (the empty text) on error
decodeBase64WithError(s) ==
    LET t == SelectSeq(s, LAMBDA c : c \notin {CR, LF})
    IN  IF B64Ok(t)
        THEN [err |-> FALSE, val |-> [i \in 1..Len(B64Bytes(t)) |-> ByteChar(B64Bytes(t)[i])]]
        ELSE [err |-> TRUE, val |-> <<>>]

\* ------------------------------------------------------------- addresses

\* isValidEmail
isValidEmail(email) ==
    LET atIdx == LastIndexChar(email, "@") - 1
        local == SubSeq(email, 1, atIdx)
        domain == SubSeq(email, atIdx + 2, Len(email))
    IN  /\ ~(Len(email) > 254 \/ Len(email) = 0)
        /\ ~(atIdx <= 0 \/ atIdx >= Len(email) - 1)
        /\ ~(Len(local) > 64 \/ Len(domain) > 253)
        /\ ContainsChar(domain, ".")

\* extractAddress
extractAddress(line) ==
    LET start == IndexChar(line, "<")
        end == IndexChar(line, ">")
        parts == SplitN2(line, ":")
    IN  IF start # 0 /\ end # 0 /\ end > start
        THEN SubSeq(line, start + 1, end - 1)
        ELSE IF Len(parts) = 2 THEN TrimSpace(parts[2]) ELSE <<>>

\* --------------------------------------------------------- configuration

\* bounds of the model
MaxRcpt == 2
MaxNow == 60
MaxAttemptsConf == 2
MaxMessageSizeConf == 8
MaxConnectionsConf == 2

\* the greatest retry_attempts a file of SpecRetry sets for a submission
MaxAttemptsRaw == 3
\* the greatest attempt number whose wait SpecRetry computes
MaxWaitAttempt == 66
\* seconds between two looks at the clock while Stop waits
StopTick == 15
\* recipients one envelope is followed to in SpecRecipients
MaxRcptLong == 501
MaxArrivals == 4

\* program constants
\* the recipient ceiling the changelog of v1.1.1 announces
RecipientLimit == 500
\* bits in each of the two limbs a 64-bit duration is held in
LimbBits == 30
\* units of 16 ns in time.Millisecond
UnitsPerMs == 62500
\* seconds Stop waits for the handlers
StopTimeout == 30
MaxLineLen == 512
DefaultMaxMessageSize == 26214400
DefaultMaxConnections == 100
RefreshMargin == 60
MaxBackoffMs == 10000
DefaultRetryAttempts == 3
DefaultRetryInitialDelay == 500
TickStep == 60

\* the credentials the token endpoint knows, and the ones the clients send
User1 == <<"u", "1">>
Pass1 == <<"p", "1">>
PassBad == <<"b", "a", "d">>
FallbackUser == <<"f", "1">>
FallbackPass == <<"f", "p">>

NoText == <<>>

ValidCreds == {<<User1, Pass1>>, <<FallbackUser, FallbackPass>>}

loadConfigKeepRetry(c) ==
    [c EXCEPT !.MaxMessageSize = IF c.MaxMessageSize = 0 THEN DefaultMaxMessageSize ELSE c.MaxMessageSize,
              !.MaxConnections = IF c.MaxConnections = 0 THEN DefaultMaxConnections ELSE c.MaxConnections,
              !.RetryInitialDelay = IF c.RetryInitialDelay = 0 THEN DefaultRetryInitialDelay ELSE c.RetryInitialDelay]

\* loadConfig: the defaults it applies to a configuration as read from the file
loadConfig(c) ==
    [c EXCEPT !.MaxMessageSize = IF c.MaxMessageSize = 0 THEN DefaultMaxMessageSize ELSE c.MaxMessageSize,
              !.MaxConnections = IF c.MaxConnections = 0 THEN DefaultMaxConnections ELSE c.MaxConnections,
              !.RetryAttempts = IF c.RetryAttempts < 1 THEN DefaultRetryAttempts ELSE c.RetryAttempts,
              !.RetryInitialDelay = IF c.RetryInitialDelay = 0 THEN DefaultRetryInitialDelay ELSE c.RetryInitialDelay]

\* the configurations a run starts from: the fallback pair set, half set, unset
ConfigFiles ==
    { [FallbackSMTPuser |-> fu, FallbackSMTPpass |-> fp,
       MaxMessageSize |-> MaxMessageSizeConf, MaxConnections |-> MaxConnectionsConf,
       RetryAttempts |-> MaxAttemptsConf, RetryInitialDelay |-> 0,
       StrictAttachments |-> FALSE]
      : fu \in {NoText, FallbackUser}, fp \in {NoText, FallbackPass} }

Configs == { loadConfig(c) : c \in {f \in ConfigFiles : ~(f.FallbackSMTPuser = NoText /\ f.FallbackSMTPpass # NoText)} }

\* ------------------------------------------------------------ token fetch

\* what the token endpoint may answer to a request for (u, p), numbered n: a
\* transport failure, an OAuth error, a body without access_token, or a token
\* with a lifetime; it issues a token only for credentials it knows
ExpiresIns == {30, 120}

TokenResponses(u, p, n) ==
    {[transport |-> TRUE, error |-> "", access_token |-> NoText, expires_in |-> 0],
     [transport |-> FALSE, error |-> "invalid_grant", access_token |-> NoText, expires_in |-> 0],
     [transport |-> FALSE, error |-> "", access_token |-> NoText, expires_in |-> 0]}
    \cup (IF <<u, p>> \in ValidCreds
          THEN {[transport |-> FALSE, error |-> "", access_token |-> <<"tok", u, n>>, expires_in |-> e] : e \in ExpiresIns}
          ELSE {})

\* getOAuth2TokenWithExpiry, from the response to its one POST
getOAuth2TokenWithExpiry(resp) ==
    IF resp.transport THEN [err |-> TRUE, detail |-> "token request failed", token |-> NoText, expiresIn |-> 0]
    ELSE IF resp.error # "" THEN [err |-> TRUE, detail |-> resp.error, token |-> NoText, expiresIn |-> 0]
    ELSE IF resp.access_token = NoText THEN [err |-> TRUE, detail |-> "no access token in response", token |-> NoText, expiresIn |-> 0]
    ELSE [err |-> FALSE, detail |-> "", token |-> resp.access_token, expiresIn |-> resp.expires_in]

\* the mutant of C3: a clock test that also passes at expiresAt
BeforeOrAt(t, u) == t <= u

\* time.Time.Before
Before(t, u) == t < u

\* the cache-hit test of getCachedOAuth2Token: an entry is stored under u and
\* the clock is before its expiresAt
CacheHit(cache, u, t) == u \in DOMAIN cache /\ Before(t, cache[u].expiresAt)

\* the cachedToken that getCachedOAuth2Token stores for a token fetched at t
NewCachedToken(token, expiresIn, t) == [token |-> token, expiresAt |-> t + (expiresIn - RefreshMargin)]

\* sync.Map.Store
MapStore(cache, u, e) == [k \in DOMAIN cache \cup {u} |-> IF k = u THEN e ELSE cache[k]]

\* sync.Map.Delete
MapDelete(cache, u) == [k \in DOMAIN cache \ {u} |-> cache[k]]

\* getCachedOAuth2Token as one caller alone runs it at time t, resp being the
\* endpoint's answer should it post: [err, token, cache, posted]
getCachedOAuth2Token(cache, t, u, resp) ==
    IF CacheHit(cache, u, t)
    THEN [err |-> FALSE, token |-> cache[u].token, cache |-> cache, posted |-> FALSE]
    ELSE LET r == getOAuth2TokenWithExpiry(resp)
         IN  IF r.err
             THEN [err |-> TRUE, token |-> NoText, cache |-> cache, posted |-> TRUE]
             ELSE [err |-> FALSE, token |-> r.token,
                   cache |-> MapStore(cache, u, NewCachedToken(r.token, r.expiresIn, t)),
                   posted |-> TRUE]

\* ------------------------------------------------------- Graph submission

RetryableStatus == {429, 500, 502, 503, 504}

RECURSIVE Pow2(_)
Pow2(n) == IF n <= 0 THEN 1 ELSE 2 * Pow2(n - 1)

\* A time.Duration is a 64-bit signed count of nanoseconds. Every duration
\* of the retry loop is a multiple of 16 ns (a millisecond is 62500 of them,
\* a backoff a millisecond count times a power of two, a jitter bound a
\* quarter of a backoff), so a duration is held as a 60-bit signed count of
\* 16 ns units in two limbs of LimbBits bits: hi signed, lo unsigned.
LimbSize == Pow2(LimbBits)

HalfLimb == LimbSize \div 2

\* the duration of v units, for v that fits a 32-bit integer
Dur(v) == [hi |-> v \div LimbSize, lo |-> v % LimbSize]

\* d * 2 as the 64-bit multiplication leaves it: the carry out of the top
\* bit is dropped, so the result may change sign
DurDouble(d) ==
    LET l == 2 * d.lo
        h == 2 * d.hi + (l \div LimbSize)
    IN  [hi |-> ((h + HalfLimb) % LimbSize) - HalfLimb, lo |-> l % LimbSize]

\* d * time.Duration(1 << k): d doubled k times (zero stays zero)
RECURSIVE DurShl(_, _)
DurShl(d, k) ==
    IF k <= 0 \/ (d.hi = 0 /\ d.lo = 0) THEN d
    ELSE DurShl(DurDouble(d), k - 1)

\* a > b on durations
DurGreater(a, b) == a.hi > b.hi \/ (a.hi = b.hi /\ a.lo > b.lo)

\* getRetryConfig
getRetryConfig(c) ==
    [MaxAttempts |-> c.RetryAttempts, InitialBackoff |-> Dur(c.RetryInitialDelay * UnitsPerMs),
     MaxBackoff |-> Dur(MaxBackoffMs * UnitsPerMs), RetryableStatus |-> RetryableStatus]

isRetryableStatusFrom400(status, retryable) == status >= 400

\* isRetryableStatus
isRetryableStatus(status, retryable) == status \in retryable

\* the backoff before attempt number attempt (0-based, attempt > 0), capped
\* at MaxBackoff
Backoff(cfg, attempt) ==
    LET b == DurShl(cfg.InitialBackoff, attempt - 1)
    IN  IF DurGreater(b, cfg.MaxBackoff) THEN cfg.MaxBackoff ELSE b

\* rand.Int63n(int64(backoff / 4)) panics when its argument is not positive
Int63nPanics(backoff) == backoff.hi < 0 \/ (backoff.hi = 0 /\ backoff.lo \div 4 <= 0)

\* the wait before attempt number attempt: [panic, backoff, jitter], backoff
\* in units and jitter the least and the greatest value rand.Int63n may draw
RetryWait(cfg, attempt) ==
    LET b == Backoff(cfg, attempt)
    IN  IF Int63nPanics(b)
        THEN [panic |-> TRUE, backoff |-> 0, jitter |-> {}]
        ELSE [panic |-> FALSE, backoff |-> b.lo, jitter |-> {0, (b.lo \div 4) - 1}]

\* what one attempt meets: the context done while waiting, a transport error,
\* or a response with a status
AttemptOutcomes ==
    {[ctxDone |-> TRUE, neterr |-> FALSE, status |-> 0],
     [ctxDone |-> FALSE, neterr |-> TRUE, status |-> 0]}
    \cup {[ctxDone |-> FALSE, neterr |-> FALSE, status |-> st] : st \in {202, 400, 503}}

NoResp == 0

\* the loop of doWithRetry from attempt on, env[attempt + 1] being what that
\* attempt meets: [resp, err, attempts, panic]; resp is a status or NoResp,
\* err a text or "" for nil; rand.Int63n panics when backoff/4 is not positive
RECURSIVE doWithRetryFrom(_, _, _, _, _, _)
doWithRetryFrom(attempt, resp, lastErr, done, env, cfg) ==
    IF ~(attempt < cfg.MaxAttempts)
    THEN [resp |-> resp, err |-> lastErr, attempts |-> done, panic |-> FALSE]
    ELSE IF attempt > 0 /\ RetryWait(cfg, attempt).panic
    THEN [resp |-> NoResp, err |-> "panic", attempts |-> done, panic |-> TRUE]
    ELSE IF attempt > 0 /\ env[attempt + 1].ctxDone
    THEN [resp |-> NoResp, err |-> "context deadline exceeded", attempts |-> done, panic |-> FALSE]
    ELSE IF env[attempt + 1].neterr \/ env[attempt + 1].ctxDone
    THEN doWithRetryFrom(attempt + 1, NoResp, "transport error", done + 1, env, cfg)
    ELSE IF ~isRetryableStatus(env[attempt + 1].status, cfg.RetryableStatus)
    THEN [resp |-> env[attempt + 1].status, err |-> "", attempts |-> done + 1, panic |-> FALSE]
    ELSE doWithRetryFrom(attempt + 1, env[attempt + 1].status, "retryable status", done + 1, env, cfg)

\* doWithRetry
doWithRetry(env, cfg) == doWithRetryFrom(0, NoResp, "", 0, env, cfg)

\* the sequences of outcomes one submission may meet
RetryEnvs(cfg) == [1..cfg.MaxAttempts -> AttemptOutcomes]

\* the mutant of C5: a submission that fails only on a status from 500 up
sendMailGraphAPILenient(env, c) ==
    LET r == doWithRetry(env, getRetryConfig(c))
    IN  IF r.err # ""
        THEN [err |-> TRUE, detail |-> "Graph API call failed after retries", status |-> r.resp, attempts |-> r.attempts, panic |-> FALSE]
        ELSE IF r.resp >= 500
        THEN [err |-> TRUE, detail |-> "Graph API error: upstream body", status |-> r.resp, attempts |-> r.attempts, panic |-> FALSE]
        ELSE [err |-> FALSE, detail |-> "", status |-> r.resp, attempts |-> r.attempts, panic |-> FALSE]

\* sendMailGraphAPI: [err, detail, status, attempts, panic]; detail is the text
\* of the returned error, which carries the upstream status and body
sendMailGraphAPI(env, c) ==
    LET r == doWithRetry(env, getRetryConfig(c))
    IN  IF r.panic THEN [err |-> TRUE, detail |-> "panic", status |-> NoResp, attempts |-> r.attempts, panic |-> TRUE]
        ELSE IF r.err # ""
        THEN [err |-> TRUE, detail |-> "Graph API call failed after retries", status |-> r.resp, attempts |-> r.attempts, panic |-> FALSE]
        ELSE IF r.resp >= 300
        THEN [err |-> TRUE, detail |-> "Graph API error: upstream body", status |-> r.resp, attempts |-> r.attempts, panic |-> FALSE]
        ELSE [err |-> FALSE, detail |-> "", status |-> r.resp, attempts |-> r.attempts, panic |-> FALSE]

\* what a submission under configuration c may return, over all that its
\* attempts may meet
Submissions(c) == {sendMailGraphAPI(env, c) : env \in RetryEnvs(getRetryConfig(c))}

\* Submissions for the configurations of the model, computed once
SubmissionTable == [c \in Configs |-> Submissions(c)]

\* ------------------------------------------------------------ the session

VARIABLES
    pc,             \* where handleSMTPConnection stands: "cmd", "authUser", "authPass", "authCheck", "data", "drain", "closed"
    authenticated, username, password, mailFrom, rcptTo,
    authedAs,       \* the login identifier and the secret of the last AUTH exchange answered 235 (a history, not a variable of the code)
    line,           \* the command line the loop iteration is working on
    messageSize, dataBuffer,
    out,            \* the replies written since that command line was read
    logged,         \* the log records written since that command line was read
    tokenGets,      \* the token gets made since that command line was read, each with its outcome
    graphPost,      \* the Graph submission made since that command line was read
    config,
    sock,           \* the connection's socket as the handler sets it: the deadlines and the fate of the last write
    TokenCache,     \* sync.Map: login identifier -> cachedToken
    now,            \* the clock, in seconds
    gpc,            \* per caller of getCachedOAuth2Token: where it stands
    gArgs,          \* per caller: the username and password it was called with
    gLoaded,        \* per caller: what its last TokenCache.Load returned
    gFetched,       \* per caller: what its getOAuth2TokenWithExpiry returned
    gResult,        \* per caller: what the call returned, and by which path
    gJoined,        \* per caller: the caller whose singleflight call it waits on
    gCold,          \* per caller: it started on a cold cache, before any call returned
    gPosted,        \* per caller: the number of token requests it posted
    flight,         \* singleflight.Group: key -> the caller running the call for it
    callRes,        \* per caller that ran a singleflight call: the call's result
    posts,          \* the token requests posted so far, over all callers
    swpc, swNow, swKeys, swKey,  \* the cleanup goroutine: place, the time it read, keys to visit, key in hand
    lpc,            \* program.run: where the accept loop stands
    connSem,        \* program.connSem: the number of slots taken
    wg,             \* program.wg: the wait group's counter
    conns,          \* the connections accepted so far, each with its fate
    ctxDone,        \* program.ctx is cancelled
    listenerClosed, \* program.listener is closed
    stopPc,         \* program.Stop: where it stands
    stopTimer,      \* seconds since Stop armed time.After in its select
    rFile,          \* a configuration file's retry settings, as written
    rRun,           \* the last run made under rFile: a submission or the wait before an attempt
    applied         \* a function of the package applied on its own: its name, its argument and, once it has returned, its result

handlerVars == <<pc, authedAs, authenticated, username, password, mailFrom, rcptTo, line, messageSize, dataBuffer, out, logged, tokenGets, graphPost, config>>

sessVars == <<handlerVars, sock>>

getVars == <<gpc, gArgs, gLoaded, gFetched, gResult, gJoined, gCold, gPosted, flight, callRes, posts>>

sweepVars == <<swpc, swNow, swKeys, swKey>>

listenVars == <<lpc, connSem, wg, conns, ctxDone, listenerClosed, stopPc, stopTimer>>

retryVars == <<rFile, rRun>>

vars == <<sessVars, TokenCache, now, getVars, sweepVars, listenVars, retryVars, applied>>

\* the lines a client sends where a command is read
LineEhlo == <<"E", "H", "L", "O", " ", "x", "\r", "\n">>
LineAuthLogin == <<"A", "U", "T", "H", " ", "L", "O", "G", "I", "N", "\r", "\n">>
LineAuthLoginUser == <<"A", "U", "T", "H", " ", "L", "O", "G", "I", "N", " ", "d", "T", "E", "=", "\r", "\n">>
LineAuthPlain == <<"A", "U", "T", "H", " ", "P", "L", "A", "I", "N", " ", "A", "H", "U", "x", "A", "H", "A", "x", "\r", "\n">>
LineMailFrom == <<"M", "A", "I", "L", " ", "F", "R", "O", "M", ":", "<", "a", "@", "b", ".", "c", ">", "\r", "\n">>
LineMailFromNull == <<"M", "A", "I", "L", " ", "F", "R", "O", "M", ":", "<", ">", "\r", "\n">>
LineMailFromBad == <<"M", "A", "I", "L", " ", "F", "R", "O", "M", ":", "<", "b", "a", "d", ">", "\r", "\n">>
LineRcptTo == <<"R", "C", "P", "T", " ", "T", "O", ":", "<", "r", "@", "x", ".", "y", ">", "\r", "\n">>
LineRcptToBad == <<"R", "C", "P", "T", " ", "T", "O", ":", "<", "b", "a", "d", ">", "\r", "\n">>
LineData == <<"D", "A", "T", "A", "\r", "\n">>
LineRset == <<"R", "S", "E", "T", "\r", "\n">>
LineNoop == <<"N", "O", "O", "P", "\r", "\n">>
LineQuit == <<"q", "u", "i", "t", "\r", "\n">>
LineVrfy == <<"V", "R", "F", "Y", "\r", "\n">>
LineEmpty == CRLF
LineLong == [i \in 1..(MaxLineLen + 1) |-> IF i = MaxLineLen + 1 THEN LF ELSE "X"]

CommandLines ==
    {LineEhlo, LineAuthLogin, LineAuthLoginUser, LineAuthPlain, LineMailFrom, LineMailFromNull, LineMailFromBad,
     LineRcptTo, LineRcptToBad, LineData, LineRset, LineNoop, LineQuit, LineVrfy, LineEmpty, LineLong}

\* the lines a client sends where base64 credentials are read: u1, p1, bad, an
\* empty line, and unpadded base64
B64User1 == <<"d", "T", "E", "=", "\r", "\n">>
B64Pass1 == <<"c", "D", "E", "=", "\r", "\n">>
B64PassBad == <<"Y", "m", "F", "k", "\r", "\n">>
B64Unpadded == <<"d", "T", "E", "\r", "\n">>

UserInputs == {B64User1, CRLF, B64Unpadded}
PassInputs == {B64Pass1, B64PassBad, CRLF, B64Unpadded}

\* the lines a client sends in the DATA phase
DataHi == <<"H", "i", "\r", "\n">>
DataStuffed == <<".", ".", "a", "\r", "\n">>
DataDot == <<".", "\r", "\n">>
DataSpaceDot == <<" ", ".", "\r", "\n">>

DataLines == {DataHi, DataStuffed, DataDot, DataSpaceDot}

Reply(t) == [text |-> t, detail |-> ""]

\* a log record: its message and one attribute that holds text (a record
\* with two such attributes is written as two entries); attributes that hold
\* a number, an address of the peer or an error value are left out
Log(m) == [msg |-> m, key |-> "", value |-> NoText]
LogText(m, k, v) == [msg |-> m, key |-> k, value |-> v]

\* the record the loop writes for every command line it accepts
Received(t) == LogText("Received SMTP command", "command", t)
ReplyErr(t, d) == [text |-> t, detail |-> d]

NoPost == [made |-> FALSE]

EmptyCache == [k \in {} |-> 0]

\* bounds of the cache model
NProcs == 2

Procs == 1..NProcs

\* no AUTH exchange of the session was answered 235 yet
NoAuth == [set |-> FALSE]

\* a socket the deadline model has not opened
NoSock == [at |-> "none"]

NoEntry == [present |-> FALSE]
NoResult == [done |-> FALSE]
NoProc == 0

InitSession ==
    /\ pc = "cmd"
    /\ authenticated = FALSE
    /\ authedAs = NoAuth
    /\ sock = NoSock
    /\ username = NoText
    /\ password = NoText
    /\ mailFrom = NoText
    /\ rcptTo = <<>>
    /\ line = NoText
    /\ messageSize = 0
    /\ dataBuffer = NoText
    /\ out = <<Reply("220 SMTP Relay Ready")>>
    /\ logged = <<>>
    /\ tokenGets = <<>>
    /\ graphPost = NoPost

InitCache ==
    /\ TokenCache = EmptyCache
    /\ now = 0
    /\ gpc = [p \in Procs |-> "idle"]
    /\ gArgs = [p \in Procs |-> <<NoText, NoText>>]
    /\ gLoaded = [p \in Procs |-> NoEntry]
    /\ gFetched = [p \in Procs |-> NoResult]
    /\ gResult = [p \in Procs |-> NoResult]
    /\ gJoined = [p \in Procs |-> NoProc]
    /\ gCold = [p \in Procs |-> FALSE]
    /\ gPosted = [p \in Procs |-> 0]
    /\ flight = EmptyCache
    /\ callRes = [p \in Procs |-> NoResult]
    /\ posts = 0
    /\ swpc = "idle"
    /\ swNow = 0
    /\ swKeys = {}
    /\ swKey = NoText

InitListener ==
    /\ lpc = "start"
    /\ connSem = 0
    /\ wg = 0
    /\ conns = <<>>
    /\ ctxDone = FALSE
    /\ listenerClosed = FALSE
    /\ stopPc = "idle"
    /\ stopTimer = 0

\* no run made yet
NoRun == [kind |-> "none"]

\* a configuration file with no fallback pair
PlainFile == CHOOSE c \in ConfigFiles : c.FallbackSMTPuser = NoText /\ c.FallbackSMTPpass = NoText

InitRetry ==
    /\ rFile = PlainFile
    /\ rRun = NoRun

\* no function of the package is being applied on its own
NoApplication == [fn |-> "none"]

InitApplied == applied = NoApplication

Init ==
    /\ InitSession
    /\ InitCache
    /\ InitListener
    /\ InitRetry
    /\ InitApplied
    /\ config \in Configs

\* the mutant of C6: the loop body with the authentication test moved after
\* the envelope commands
DispatchAuthLast(l, auth) ==
    LET t == TrimRight(l, {CR, LF})
        u == ToUpper(t)
    IN  IF Len(l) > MaxLineLen THEN "toolong"
        ELSE IF t = NoText THEN "empty"
        ELSE IF HasPrefix(u, <<"E", "H", "L", "O">>) \/ HasPrefix(u, <<"H", "E", "L", "O">>) THEN "ehlo"
        ELSE IF HasPrefix(u, <<"A", "U", "T", "H", " ", "L", "O", "G", "I", "N">>) THEN "auth"
        ELSE IF HasPrefix(u, <<"M", "A", "I", "L", " ", "F", "R", "O", "M", ":">>) THEN "mail"
        ELSE IF HasPrefix(u, <<"R", "C", "P", "T", " ", "T", "O", ":">>) THEN "rcpt"
        ELSE IF HasPrefix(u, <<"D", "A", "T", "A">>) THEN "data"
        ELSE IF ~auth THEN "noauth"
        ELSE "tail"

\* the branch of the loop body that a line read as a command takes, in the
\* order the code tests them
Dispatch(l, auth) ==
    LET t == TrimRight(l, {CR, LF})
        u == ToUpper(t)
    IN  IF Len(l) > MaxLineLen THEN "toolong"
        ELSE IF t = NoText THEN "empty"
        ELSE IF HasPrefix(u, <<"E", "H", "L", "O">>) \/ HasPrefix(u, <<"H", "E", "L", "O">>) THEN "ehlo"
        ELSE IF HasPrefix(u, <<"A", "U", "T", "H", " ", "L", "O", "G", "I", "N">>) THEN "auth"
        ELSE IF ~auth THEN "noauth"
        ELSE IF HasPrefix(u, <<"M", "A", "I", "L", " ", "F", "R", "O", "M", ":">>) THEN "mail"
        ELSE IF HasPrefix(u, <<"R", "C", "P", "T", " ", "T", "O", ":">>) THEN "rcpt"
        ELSE IF HasPrefix(u, <<"D", "A", "T", "A">>) THEN "data"
        ELSE "tail"

\* Dispatch on the lines the clients of the model send, computed once
DispatchTable == [l \in CommandLines |-> [auth \in BOOLEAN |-> Dispatch(l, auth)]]

\* the tests after the continueLoop label, on the trimmed line
ContinueLoopRsetAsNoop(t) ==
    LET u == ToUpper(t)
    IN  IF HasPrefix(u, <<"Q", "U", "I", "T">>) THEN "quit"
        ELSE IF HasPrefix(u, <<"R", "S", "E", "T">>) THEN "noop"
        ELSE IF HasPrefix(u, <<"N", "O", "O", "P">>) THEN "noop"
        ELSE "other"

ContinueLoop(t) ==
    LET u == ToUpper(t)
    IN  IF HasPrefix(u, <<"Q", "U", "I", "T">>) THEN "quit"
        ELSE IF HasPrefix(u, <<"R", "S", "E", "T">>) THEN "rset"
        ELSE IF HasPrefix(u, <<"N", "O", "O", "P">>) THEN "noop"
        ELSE "other"

\* a command line is read: the per-command record starts afresh
StartCommand(l) ==
    /\ pc = "cmd"
    /\ line' = TrimRight(l, {CR, LF})
    /\ tokenGets' = <<>>
    /\ graphPost' = NoPost

CmdTooLong ==
    \E l \in CommandLines :
        /\ pc = "cmd"
        /\ DispatchTable[l][authenticated] = "toolong"
        /\ line' = l
        /\ tokenGets' = <<>>
        /\ graphPost' = NoPost
        /\ out' = <<Reply("500 5.5.1 Line too long")>>
        /\ logged' = <<Log("Command line too long")>>
        /\ UNCHANGED <<pc, authedAs, authenticated, username, password, mailFrom, rcptTo, messageSize, dataBuffer, config, sock, TokenCache, now, getVars, sweepVars, listenVars, retryVars, applied>>

CmdEmpty ==
    \E l \in CommandLines :
        /\ DispatchTable[l][authenticated] = "empty"
        /\ StartCommand(l)
        /\ out' = <<>>
        /\ logged' = <<>>
        /\ UNCHANGED <<pc, authedAs, authenticated, username, password, mailFrom, rcptTo, messageSize, dataBuffer, config, sock, TokenCache, now, getVars, sweepVars, listenVars, retryVars, applied>>

CmdEhlo ==
    \E l \in CommandLines :
        /\ DispatchTable[l][authenticated] = "ehlo"
        /\ StartCommand(l)
        /\ out' = <<Reply("250-smtpRelay"), Reply("250 AUTH LOGIN")>>
        /\ logged' = <<Received(line')>>
        /\ UNCHANGED <<pc, authedAs, authenticated, username, password, mailFrom, rcptTo, messageSize, dataBuffer, config, sock, TokenCache, now, getVars, sweepVars, listenVars, retryVars, applied>>

\* AUTH LOGIN, with the username on the command line (three fields) or not
CmdAuthLogin ==
    \E l \in CommandLines :
        /\ DispatchTable[l][authenticated] = "auth"
        /\ StartCommand(l)
        /\ LET parts == Fields(TrimRight(l, {CR, LF}))
           IN  IF Len(parts) = 3
               THEN LET d == decodeBase64WithError(TrimSpace(parts[3]))
                    IN  /\ username' = d.val
                        /\ IF d.err
                           THEN /\ out' = <<Reply("501 5.5.4 Invalid base64 encoding")>>
                                /\ logged' = <<Received(line'), Log("Invalid base64 in username")>>
                                /\ pc' = "cmd"
                           ELSE /\ out' = <<Reply("334 UGFzc3dvcmQ6")>>
                                /\ logged' = <<Received(line'), LogText("AUTH LOGIN inline username", "username", d.val)>>
                                /\ pc' = "authPass"
               ELSE /\ out' = <<Reply("334 VXNlcm5hbWU6")>>
                    /\ logged' = <<Received(line')>>
                    /\ pc' = "authUser"
                    /\ UNCHANGED username
        /\ UNCHANGED <<authedAs, authenticated, password, mailFrom, rcptTo, messageSize, dataBuffer, config, sock, TokenCache, now, getVars, sweepVars, listenVars, retryVars, applied>>

\* the username line after the 334 prompt
AuthReadUser ==
    \E b \in UserInputs :
        /\ pc = "authUser"
        /\ LET d == decodeBase64WithError(TrimSpace(b))
           IN  /\ username' = d.val
               /\ IF d.err
                  THEN /\ out' = Append(out, Reply("501 5.5.4 Invalid base64 encoding"))
                       /\ logged' = Append(logged, Log("Invalid base64 in username"))
                       /\ pc' = "cmd"
                  ELSE /\ out' = Append(out, Reply("334 UGFzc3dvcmQ6"))
                       /\ logged' = Append(logged, LogText("AUTH LOGIN username", "username", d.val))
                       /\ pc' = "authPass"
        /\ UNCHANGED <<authedAs, authenticated, password, mailFrom, rcptTo, line, messageSize, dataBuffer, tokenGets, graphPost, config, sock, TokenCache, now, getVars, sweepVars, listenVars, retryVars, applied>>

\* the test that sends the session to the fallback credentials
CredentialsMissing(u, p) == u = NoText \/ p = NoText

\* the mutant of C9: a fallback test that wants both credentials missing
NoFallbackBoth(c) == c.FallbackSMTPuser = NoText /\ c.FallbackSMTPpass = NoText

\* the test that finds no fallback pair configured
NoFallback(c) == c.FallbackSMTPuser = NoText \/ c.FallbackSMTPpass = NoText

\* the mutant of C8: a verdict that does not read the outcome of the get
AuthVerdictAlways(r) == "235 2.7.0 Authentication successful"

\* what the session does with the outcome r of the token get of its AUTH
AuthVerdict(r) == IF r.err THEN "535 5.7.8 Authentication failed" ELSE "235 2.7.0 Authentication successful"

\* the password line after the 334 prompt
AuthReadPass ==
    \E b \in PassInputs :
        /\ pc = "authPass"
        /\ LET d == decodeBase64WithError(TrimSpace(b))
           IN  /\ password' = d.val
               /\ IF d.err
                  THEN /\ out' = Append(out, Reply("501 5.5.4 Invalid base64 encoding"))
                       /\ logged' = Append(logged, Log("Invalid base64 in password"))
                       /\ pc' = "cmd"
                  ELSE /\ pc' = "authCheck"
                       /\ UNCHANGED <<out, logged>>
        /\ UNCHANGED <<authedAs, authenticated, username, mailFrom, rcptTo, line, messageSize, dataBuffer, tokenGets, graphPost, config, sock, TokenCache, now, getVars, sweepVars, listenVars, retryVars, applied>>

\* both credentials are decoded: the fallback test, then the token get that
\* decides the exchange
AuthCheck ==
    /\ pc = "authCheck"
    /\ IF CredentialsMissing(username, password) /\ NoFallback(config)
       THEN /\ out' = Append(out, Reply("535 5.7.8 Authentication credentials invalid"))
            /\ logged' = Append(logged, Log("Authentication failed: no credentials provided"))
            /\ pc' = "closed"
            /\ UNCHANGED <<authedAs, authenticated, username, password, tokenGets, TokenCache>>
       ELSE LET fb == CredentialsMissing(username, password)
                u == IF fb THEN config.FallbackSMTPuser ELSE username
                p == IF fb THEN config.FallbackSMTPpass ELSE password
            IN  \E resp \in TokenResponses(u, p, 1) :
                    LET r == getCachedOAuth2Token(TokenCache, now, u, resp)
                    IN  /\ username' = u
                        /\ password' = p
                        /\ TokenCache' = r.cache
                        /\ tokenGets' = Append(tokenGets, [user |-> u, pass |-> p, fallback |-> fb, err |-> r.err, posted |-> r.posted])
                        /\ out' = Append(out, Reply(AuthVerdict(r)))
                        /\ logged' = (IF fb THEN Append(logged, Log("Using fallback credentials - per-user auditing bypassed")) ELSE logged)
                                      \o (IF r.err THEN <<Log("OAuth2 token retrieval failed")>>
                                          ELSE <<LogText("User authenticated", "username", u)>>)
                        /\ IF AuthVerdict(r) = "235 2.7.0 Authentication successful"
                           THEN authenticated' = TRUE /\ pc' = "cmd" /\ authedAs' = [set |-> TRUE, user |-> u, pass |-> p]
                           ELSE UNCHANGED <<authenticated, authedAs>> /\ pc' = "closed"
    /\ UNCHANGED <<mailFrom, rcptTo, line, messageSize, dataBuffer, graphPost, config, sock, now, getVars, sweepVars, listenVars, retryVars, applied>>

\* any other command while the session is not authenticated
CmdNotAuthenticated ==
    \E l \in CommandLines :
        /\ DispatchTable[l][authenticated] = "noauth"
        /\ StartCommand(l)
        /\ out' = <<Reply("530 5.7.0 Authentication required")>>
        /\ logged' = <<Received(line'), LogText("Authentication required for command", "command", line')>>
        /\ UNCHANGED <<pc, authedAs, authenticated, username, password, mailFrom, rcptTo, messageSize, dataBuffer, config, sock, TokenCache, now, getVars, sweepVars, listenVars, retryVars, applied>>

CmdMailFrom ==
    \E l \in CommandLines :
        /\ DispatchTable[l][authenticated] = "mail"
        /\ StartCommand(l)
        /\ mailFrom' = extractAddress(TrimRight(l, {CR, LF}))
        /\ out' = IF mailFrom' = NoText
                  THEN <<Reply("501 5.1.7 Invalid sender address")>>
                  ELSE <<Reply("250 2.1.0 Ok")>>
        /\ logged' = <<Received(line')>>
        /\ UNCHANGED <<pc, authedAs, authenticated, username, password, rcptTo, messageSize, dataBuffer, config, sock, TokenCache, now, getVars, sweepVars, listenVars, retryVars, applied>>

\* RCPT TO, explored while the envelope holds fewer than bound recipients
RcptTo(bound) ==
    \E l \in CommandLines :
        /\ DispatchTable[l][authenticated] = "rcpt"
        /\ StartCommand(l)
        /\ logged' = <<Received(line')>>
        /\ LET addr == extractAddress(TrimRight(l, {CR, LF}))
           IN  IF addr = NoText \/ ~isValidEmail(addr)
               THEN /\ out' = <<Reply("553 5.1.3 Invalid recipient address")>>
                    /\ UNCHANGED rcptTo
               ELSE /\ Len(rcptTo) < bound
                    /\ rcptTo' = Append(rcptTo, addr)
                    /\ out' = <<Reply("250 2.1.5 Ok")>>
        /\ UNCHANGED <<pc, authedAs, authenticated, username, password, mailFrom, messageSize, dataBuffer, config, sock, TokenCache, now, getVars, sweepVars, listenVars, retryVars, applied>>

CmdRcptTo == RcptTo(MaxRcpt)

\* the test DATA makes before it answers 354
DataAllowed(auth, from, rcpts) == ~(Len(rcpts) = 0)

CmdData ==
    \E l \in CommandLines :
        /\ DispatchTable[l][authenticated] = "data"
        /\ StartCommand(l)
        /\ IF ~DataAllowed(authenticated, mailFrom, rcptTo)
           THEN /\ out' = <<Reply("503 5.5.1 No recipients specified")>>
                /\ UNCHANGED pc
           ELSE /\ out' = <<Reply("354 End data with <CR><LF>.<CR><LF>")>>
                /\ pc' = "data"
        /\ logged' = <<Received(line')>>
        /\ messageSize' = 0
        /\ dataBuffer' = NoText
        /\ UNCHANGED <<authedAs, authenticated, username, password, mailFrom, rcptTo, config, sock, TokenCache, now, getVars, sweepVars, listenVars, retryVars, applied>>

\* the reply of the tests after the continueLoop label, for the trimmed line t
TailReply(t) ==
    CASE ContinueLoop(t) = "quit" -> "221 2.0.0 Bye"
      [] ContinueLoop(t) = "rset" -> "250 2.0.0 Ok"
      [] ContinueLoop(t) = "noop" -> "250 2.0.0 Ok"
      [] OTHER -> "502 5.5.2 Command not implemented"

\* QUIT, RSET, NOOP and the 502 default
CmdTail ==
    \E l \in CommandLines :
        /\ DispatchTable[l][authenticated] = "tail"
        /\ StartCommand(l)
        /\ out' = <<Reply(TailReply(line'))>>
        /\ logged' = <<Received(line')>>
        /\ pc' = IF ContinueLoop(line') = "quit" THEN "closed" ELSE "cmd"
        /\ IF ContinueLoop(line') = "rset"
           THEN mailFrom' = NoText /\ rcptTo' = <<>>
           ELSE UNCHANGED <<mailFrom, rcptTo>>
        /\ UNCHANGED <<authedAs, authenticated, username, password, messageSize, dataBuffer, config, sock, TokenCache, now, getVars, sweepVars, listenVars, retryVars, applied>>

\* the test that ends the DATA phase
IsTerminator(dataLine) == TrimSpace(dataLine) = <<".">>

TooLargeByALine(size, c) == size > c.MaxMessageSize + 4

\* the size test of the DATA loop
TooLarge(size, c) == size > c.MaxMessageSize

\* what parseSubjectBodyAndAttachments may return for a message: the parsed
\* message, or an error whose text names the cause
ParseOutcomes == {[err |-> FALSE, detail |-> ""], [err |-> TRUE, detail |-> "mail.ReadMessage failed: malformed header"]}

\* the reply that ends a DATA transaction whose Graph submission returned s
DeliveryReply(s) ==
    IF s.err THEN ReplyErr("550 5.7.0 Delivery failed: ", s.detail)
    ELSE Reply("250 2.0.0 Ok: queued as graphapi")

\* the terminator line is read: the message is rebuilt, parsed and submitted
DataEnd ==
    \E d \in DataLines, parsed \in ParseOutcomes :
        /\ pc = "data"
        /\ IsTerminator(d)
        /\ messageSize' = 0
        /\ dataBuffer' = NoText
        /\ IF parsed.err
           THEN /\ out' = Append(out, ReplyErr("550 5.6.0 Message parsing failed: ", parsed.detail))
                /\ logged' = Append(logged, Log("MIME parsing failed"))
                /\ pc' = "closed"
                /\ UNCHANGED <<mailFrom, rcptTo, tokenGets, graphPost, TokenCache>>
           ELSE \E resp \in TokenResponses(username, password, 1) :
                    LET r == getCachedOAuth2Token(TokenCache, now, username, resp)
                    IN  /\ TokenCache' = r.cache
                        /\ tokenGets' = Append(tokenGets, [user |-> username, pass |-> password, fallback |-> FALSE, err |-> r.err, posted |-> r.posted])
                        /\ IF r.err
                           THEN /\ out' = Append(out, Reply("451 4.7.0 Temporary authentication failure"))
                                /\ logged' = Append(logged, LogText("Failed to get OAuth2 token", "username", username))
                                /\ pc' = "closed"
                                /\ UNCHANGED <<mailFrom, rcptTo, graphPost>>
                           ELSE \E s \in SubmissionTable[config] :
                                        /\ graphPost' = [made |-> TRUE, sender |-> username, from |-> mailFrom,
                                                         to |-> rcptTo, msg |-> NormalizeLineEndings(dataBuffer),
                                                         status |-> s.status, attempts |-> s.attempts, err |-> s.err]
                                        /\ IF s.panic
                                           THEN /\ pc' = "closed"
                                                /\ logged' = Append(logged, Log("Panic recovered in SMTP handler"))
                                                /\ UNCHANGED <<out, mailFrom, rcptTo>>
                                           ELSE IF s.err
                                           THEN /\ out' = Append(out, DeliveryReply(s))
                                                /\ logged' = logged \o <<LogText("Failed to send email via Graph API", "username", username),
                                                                          LogText("Failed to send email via Graph API", "mailFrom", mailFrom)>>
                                                /\ pc' = "closed"
                                                /\ UNCHANGED <<mailFrom, rcptTo>>
                                           ELSE /\ out' = Append(out, DeliveryReply(s))
                                                /\ logged' = logged \o <<LogText("E-mail sent successfully", "username", username),
                                                                          LogText("E-mail sent successfully", "mailFrom", mailFrom)>>
                                                /\ pc' = "cmd"
                                                /\ mailFrom' = NoText
                                                /\ rcptTo' = <<>>
        /\ UNCHANGED <<authedAs, authenticated, username, password, line, config, sock, now, getVars, sweepVars, listenVars, retryVars, applied>>

\* a line of the message is read: counted, then refused or appended
DataLine ==
    \E d \in DataLines :
        /\ pc = "data"
        /\ ~IsTerminator(d)
        /\ messageSize' = messageSize + Len(d)
        /\ IF TooLarge(messageSize', config)
           THEN /\ out' = Append(out, ReplyErr("552 5.3.4 Message too large (max %d bytes)", ToString(config.MaxMessageSize)))
                /\ logged' = Append(logged, Log("Message rejected: size exceeded"))
                /\ pc' = "drain"
                /\ UNCHANGED dataBuffer
           ELSE /\ dataBuffer' = dataBuffer \o d
                /\ UNCHANGED <<out, logged, pc>>
        /\ UNCHANGED <<authedAs, authenticated, username, password, mailFrom, rcptTo, line, tokenGets, graphPost, config, sock, TokenCache, now, getVars, sweepVars, listenVars, retryVars, applied>>

\* the rest of a refused message is read and dropped
DrainSkip ==
    \E d \in DataLines :
        /\ pc = "drain"
        /\ ~IsTerminator(d)
        /\ UNCHANGED vars

\* the drain loop ends (terminator or read error): the envelope is reset and
\* control jumps to the continueLoop label with the DATA line still in line
DrainEnd ==
    \E d \in DataLines, readError \in BOOLEAN :
        /\ pc = "drain"
        /\ readError \/ IsTerminator(d)
        /\ out' = Append(out, Reply(TailReply(line)))
        /\ pc' = IF ContinueLoop(line) = "quit" THEN "closed" ELSE "cmd"
        /\ mailFrom' = NoText
        /\ rcptTo' = <<>>
        /\ messageSize' = 0
        /\ dataBuffer' = NoText
        /\ UNCHANGED <<authedAs, authenticated, username, password, line, logged, tokenGets, graphPost, config, sock, TokenCache, now, getVars, sweepVars, listenVars, retryVars, applied>>

\* a read fails (timeout, or the client is gone): 421 where the code writes
\* one, nothing in the DATA phase, and the handler returns
ReadError ==
    \E timeout \in BOOLEAN :
        /\ pc \in {"cmd", "authUser", "authPass", "data"}
        /\ out' = CASE pc = "cmd" /\ timeout -> <<Reply("421 4.4.2 Connection timeout")>>
                    [] pc = "cmd" /\ ~timeout -> <<Reply("421 4.7.0 Service not available")>>
                    [] pc \in {"authUser", "authPass"} -> Append(out, Reply("421 4.7.0 Connection error during authentication"))
                    [] OTHER -> out
        /\ logged' = CASE pc = "cmd" /\ timeout -> <<Log("Connection timeout")>>
                       [] pc = "cmd" /\ ~timeout -> <<Log("Client read error")>>
                       [] pc = "authUser" -> Append(logged, Log("Failed to read username during AUTH"))
                       [] pc = "authPass" -> Append(logged, Log("Failed to read password during AUTH"))
                       [] OTHER -> Append(logged, Log("Client read error during DATA"))
        /\ pc' = "closed"
        /\ line' = IF pc = "cmd" THEN NoText ELSE line
        /\ UNCHANGED <<authedAs, authenticated, username, password, mailFrom, rcptTo, messageSize, dataBuffer, tokenGets, graphPost, config, sock, TokenCache, now, getVars, sweepVars, listenVars, retryVars, applied>>

Next ==
    \/ CmdTooLong
    \/ CmdEmpty
    \/ CmdEhlo
    \/ CmdAuthLogin
    \/ AuthReadUser
    \/ AuthReadPass
    \/ AuthCheck
    \/ CmdNotAuthenticated
    \/ CmdMailFrom
    \/ CmdRcptTo
    \/ CmdData
    \/ CmdTail
    \/ DataEnd
    \/ DataLine
    \/ DrainSkip
    \/ DrainEnd
    \/ ReadError

Spec == Init /\ [][Next]_vars

\* --------------------------------------------------------- the token cache
\* getCachedOAuth2Token step by step, for callers that run concurrently, and
\* the cleanup goroutine of StartTokenCacheCleanup.

\* the passwords the callers pass for User1
CallerPasswords == {Pass1, PassBad}

\* sync.Map.Load
MapLoad(cache, u) == IF u \in DOMAIN cache THEN [present |-> TRUE, entry |-> cache[u]] ELSE NoEntry

\* the test made on a loaded entry, at time t, on both cache-hit paths
LoadedValid(l, t) == l.present /\ Before(t, l.entry.expiresAt)

\* the mutant of C4: a group that never finds a call in flight
FlightNever(fl, key) == FALSE

\* singleflight.Group.Do finds a call for key in flight
FlightExists(fl, key) == key \in DOMAIN fl

\* a caller enters getCachedOAuth2Token
GetCall(p) ==
    \E pw \in CallerPasswords :
        /\ gpc[p] = "idle"
        /\ ~gResult[p].done
        /\ gpc' = [gpc EXCEPT ![p] = "load1"]
        /\ gArgs' = [gArgs EXCEPT ![p] = <<User1, pw>>]
        /\ gCold' = [gCold EXCEPT ![p] = User1 \notin DOMAIN TokenCache /\ \A q \in Procs : ~gResult[q].done]
        /\ UNCHANGED <<gLoaded, gFetched, gResult, gJoined, gPosted, flight, callRes, posts, TokenCache, now, sweepVars, sessVars, listenVars, retryVars, applied>>

\* the first TokenCache.Load
GetLoad1(p) ==
    /\ gpc[p] = "load1"
    /\ gLoaded' = [gLoaded EXCEPT ![p] = MapLoad(TokenCache, gArgs[p][1])]
    /\ gpc' = [gpc EXCEPT ![p] = "check1"]
    /\ UNCHANGED <<gArgs, gFetched, gResult, gJoined, gCold, gPosted, flight, callRes, posts, TokenCache, now, sweepVars, sessVars, listenVars, retryVars, applied>>

\* the first expiry test: return the cached token, or go on to singleflight
GetCheck1(p) ==
    /\ gpc[p] = "check1"
    /\ IF LoadedValid(gLoaded[p], now)
       THEN /\ gResult' = [gResult EXCEPT ![p] = [done |-> TRUE, err |-> FALSE, token |-> gLoaded[p].entry.token, path |-> "hit1"]]
            /\ gpc' = [gpc EXCEPT ![p] = "done"]
       ELSE /\ gpc' = [gpc EXCEPT ![p] = "do"]
            /\ UNCHANGED gResult
    /\ UNCHANGED <<gArgs, gLoaded, gFetched, gJoined, gCold, gPosted, flight, callRes, posts, TokenCache, now, sweepVars, sessVars, listenVars, retryVars, applied>>

\* tokenFetchGroup.Do: join the call in flight for the key, or start one
GetDo(p) ==
    /\ gpc[p] = "do"
    /\ IF FlightExists(flight, gArgs[p][1])
       THEN /\ gJoined' = [gJoined EXCEPT ![p] = flight[gArgs[p][1]]]
            /\ gpc' = [gpc EXCEPT ![p] = "wait"]
            /\ UNCHANGED <<flight, callRes>>
       ELSE /\ flight' = MapStore(flight, gArgs[p][1], p)
            /\ callRes' = [callRes EXCEPT ![p] = NoResult]
            /\ gpc' = [gpc EXCEPT ![p] = "load2"]
            /\ UNCHANGED gJoined
    /\ UNCHANGED <<gArgs, gLoaded, gFetched, gResult, gCold, gPosted, posts, TokenCache, now, sweepVars, sessVars, listenVars, retryVars, applied>>

\* inside the call: the second TokenCache.Load
GetLoad2(p) ==
    /\ gpc[p] = "load2"
    /\ gLoaded' = [gLoaded EXCEPT ![p] = MapLoad(TokenCache, gArgs[p][1])]
    /\ gpc' = [gpc EXCEPT ![p] = "check2"]
    /\ UNCHANGED <<gArgs, gFetched, gResult, gJoined, gCold, gPosted, flight, callRes, posts, TokenCache, now, sweepVars, sessVars, listenVars, retryVars, applied>>

\* inside the call: the second expiry test
GetCheck2(p) ==
    /\ gpc[p] = "check2"
    /\ IF LoadedValid(gLoaded[p], now)
       THEN /\ gFetched' = [gFetched EXCEPT ![p] = [done |-> TRUE, err |-> FALSE, token |-> gLoaded[p].entry.token, path |-> "hit2"]]
            /\ gpc' = [gpc EXCEPT ![p] = "finish"]
       ELSE /\ gpc' = [gpc EXCEPT ![p] = "post"]
            /\ UNCHANGED gFetched
    /\ UNCHANGED <<gArgs, gLoaded, gResult, gJoined, gCold, gPosted, flight, callRes, posts, TokenCache, now, sweepVars, sessVars, listenVars, retryVars, applied>>

\* getOAuth2TokenWithExpiry sends its POST to the token endpoint
GetPost(p) ==
    /\ gpc[p] = "post"
    /\ posts' = posts + 1
    /\ gPosted' = [gPosted EXCEPT ![p] = gPosted[p] + 1]
    /\ gpc' = [gpc EXCEPT ![p] = "reply"]
    /\ UNCHANGED <<gArgs, gLoaded, gFetched, gResult, gJoined, gCold, flight, callRes, TokenCache, now, sweepVars, sessVars, listenVars, retryVars, applied>>

AfterFetchAlwaysStore(r) == "store"

\* where the call goes once getOAuth2TokenWithExpiry has returned r: an error
\* is returned at once, a token goes on to the store
AfterFetch(r) == IF r.err THEN "finish" ELSE "store"

\* the endpoint answers
GetReply(p) ==
    \E resp \in TokenResponses(gArgs[p][1], gArgs[p][2], posts) :
        LET r == getOAuth2TokenWithExpiry(resp)
        IN  /\ gpc[p] = "reply"
            /\ gFetched' = [gFetched EXCEPT ![p] = [done |-> TRUE, err |-> r.err, token |-> r.token, path |-> "fetch", expiresIn |-> r.expiresIn]]
            /\ gpc' = [gpc EXCEPT ![p] = AfterFetch(r)]
            /\ UNCHANGED <<gArgs, gLoaded, gResult, gJoined, gCold, gPosted, flight, callRes, posts, TokenCache, now, sweepVars, sessVars, listenVars, retryVars, applied>>

\* TokenCache.Store of the fetched token, with the clock read at the store
GetStore(p) ==
    /\ gpc[p] = "store"
    /\ TokenCache' = MapStore(TokenCache, gArgs[p][1], NewCachedToken(gFetched[p].token, gFetched[p].expiresIn, now))
    /\ gpc' = [gpc EXCEPT ![p] = "finish"]
    /\ UNCHANGED <<gArgs, gLoaded, gFetched, gResult, gJoined, gCold, gPosted, flight, callRes, posts, now, sweepVars, sessVars, listenVars, retryVars, applied>>

\* the call ends: its result is published to the waiters, its key leaves the
\* group, and the caller that ran it returns
GetFinish(p) ==
    /\ gpc[p] = "finish"
    /\ callRes' = [callRes EXCEPT ![p] = [done |-> TRUE, err |-> gFetched[p].err, token |-> gFetched[p].token]]
    /\ flight' = MapDelete(flight, gArgs[p][1])
    /\ gResult' = [gResult EXCEPT ![p] = [done |-> TRUE, err |-> gFetched[p].err, token |-> gFetched[p].token, path |-> gFetched[p].path]]
    /\ gpc' = [gpc EXCEPT ![p] = "done"]
    /\ UNCHANGED <<gArgs, gLoaded, gFetched, gJoined, gCold, gPosted, posts, TokenCache, now, sweepVars, sessVars, listenVars, retryVars, applied>>

\* a caller that joined a call wakes with that call's result
GetWake(p) ==
    /\ gpc[p] = "wait"
    /\ callRes[gJoined[p]].done
    /\ gResult' = [gResult EXCEPT ![p] = [done |-> TRUE, err |-> callRes[gJoined[p]].err, token |-> callRes[gJoined[p]].token, path |-> "shared"]]
    /\ gpc' = [gpc EXCEPT ![p] = "done"]
    /\ UNCHANGED <<gArgs, gLoaded, gFetched, gJoined, gCold, gPosted, flight, callRes, posts, TokenCache, now, sweepVars, sessVars, listenVars, retryVars, applied>>

\* time.Time.After
After(t, u) == t > u

\* the ticker fires: the cleanup reads the clock and starts TokenCache.Range
SweepStart ==
    /\ swpc = "idle"
    /\ swNow' = now
    /\ swKeys' = DOMAIN TokenCache
    /\ swpc' = "range"
    /\ UNCHANGED <<swKey, TokenCache, now, getVars, sessVars, listenVars, retryVars, applied>>

\* Range visits a key: the value it holds then is tested against the time read
SweepVisit ==
    \E k \in swKeys :
        /\ swpc = "range"
        /\ swKeys' = swKeys \ {k}
        /\ IF k \in DOMAIN TokenCache /\ After(swNow, TokenCache[k].expiresAt)
           THEN swpc' = "delete" /\ swKey' = k
           ELSE UNCHANGED <<swpc, swKey>>
        /\ UNCHANGED <<swNow, TokenCache, now, getVars, sessVars, listenVars, retryVars, applied>>

\* TokenCache.Delete of the key in hand
SweepDelete ==
    /\ swpc = "delete"
    /\ TokenCache' = MapDelete(TokenCache, swKey)
    /\ swpc' = "range"
    /\ swKey' = NoText
    /\ UNCHANGED <<swNow, swKeys, now, getVars, sessVars, listenVars, retryVars, applied>>

\* Range has visited every key
SweepEnd ==
    /\ swpc = "range"
    /\ swKeys = {}
    /\ swpc' = "idle"
    /\ UNCHANGED <<swNow, swKeys, swKey, TokenCache, now, getVars, sessVars, listenVars, retryVars, applied>>

\* the clock advances
Tick ==
    /\ now + TickStep <= MaxNow
    /\ now' = now + TickStep
    /\ UNCHANGED <<sessVars, TokenCache, getVars, sweepVars, listenVars, retryVars, applied>>

NextCache ==
    \/ \E p \in Procs : GetCall(p)
    \/ \E p \in Procs : GetLoad1(p)
    \/ \E p \in Procs : GetCheck1(p)
    \/ \E p \in Procs : GetDo(p)
    \/ \E p \in Procs : GetLoad2(p)
    \/ \E p \in Procs : GetCheck2(p)
    \/ \E p \in Procs : GetPost(p)
    \/ \E p \in Procs : GetReply(p)
    \/ \E p \in Procs : GetStore(p)
    \/ \E p \in Procs : GetFinish(p)
    \/ \E p \in Procs : GetWake(p)
    \/ SweepStart
    \/ SweepVisit
    \/ SweepDelete
    \/ SweepEnd
    \/ Tick

InitCacheSpec ==
    /\ InitSession
    /\ InitCache
    /\ InitListener
    /\ InitRetry
    /\ InitApplied
    /\ config = loadConfig(CHOOSE c \in ConfigFiles : c.FallbackSMTPuser = NoText /\ c.FallbackSMTPpass = NoText)

SpecCache == InitCacheSpec /\ [][NextCache]_vars

\* ---------------------------------------------------------------------
\* One session that logs in and then sends RCPT TO after RCPT TO: the
\* envelope is followed up to MaxRcptLong recipients.
\* ---------------------------------------------------------------------
CmdRcptToLong == RcptTo(MaxRcptLong)

NextRecipients ==
    \/ CmdAuthLogin
    \/ AuthReadUser
    \/ AuthReadPass
    \/ AuthCheck
    \/ CmdRcptToLong

SpecRecipients == InitCacheSpec /\ [][NextRecipients]_vars

\* ---------------------------------------------------------------------
\* The retry executor on its own: configuration files with every kind of
\* retry_attempts, each submission meeting every sequence of outcomes, and
\* the wait computed before every attempt number up to MaxWaitAttempt.
\* ---------------------------------------------------------------------

\* the files a submission is run under: every kind of retry_attempts, with
\* initial delays whose backoff stays within the range of a duration
RetryFiles ==
    { [PlainFile EXCEPT !.RetryAttempts = a, !.RetryInitialDelay = d]
      : a \in (-1)..MaxAttemptsRaw, d \in {0, 250} }

\* the files the wait is computed under: a short and a long attempt budget,
\* and initial delays that are negative, unset, least and default
WaitFiles ==
    { [PlainFile EXCEPT !.RetryAttempts = a, !.RetryInitialDelay = d]
      : a \in {2, MaxWaitAttempt + 1}, d \in {-1, 0, 1, 500} }

\* one submission under rFile: what doWithRetry returns, what
\* sendMailGraphAPI makes of it and the reply the session would write
RetrySubmit ==
    \E env \in RetryEnvs(getRetryConfig(loadConfig(rFile))) :
        /\ rRun = NoRun
        /\ rRun' = [kind |-> "submit", env |-> env,
                    res |-> doWithRetry(env, getRetryConfig(loadConfig(rFile))),
                    reply |-> DeliveryReply(sendMailGraphAPI(env, loadConfig(rFile)))]
        /\ UNCHANGED <<sessVars, TokenCache, now, getVars, sweepVars, listenVars, rFile, applied>>

\* the wait before attempt number a (0-based) of a submission under file f,
\* which the loop computes once a attempts have failed
RetryWaitStep ==
    \E f \in WaitFiles, a \in 1..MaxWaitAttempt :
        /\ rRun = NoRun
        /\ a < loadConfig(f).RetryAttempts
        /\ rRun' = [kind |-> "wait", file |-> f, attempt |-> a,
                    wait |-> RetryWait(getRetryConfig(loadConfig(f)), a)]
        /\ UNCHANGED <<sessVars, TokenCache, now, getVars, sweepVars, listenVars, rFile, applied>>

NextRetry ==
    \/ RetrySubmit
    \/ RetryWaitStep

InitRetrySpec ==
    /\ InitSession
    /\ InitCache
    /\ InitListener
    /\ config = loadConfig(PlainFile)
    /\ rFile \in RetryFiles
    /\ rRun = NoRun
    /\ InitApplied

SpecRetry == InitRetrySpec /\ [][NextRetry]_vars

\* ---------------------------------------------------------------------
\* isValidEmail and extractAddress, each applied on its own to the strings
\* of a bounded set.
\* ---------------------------------------------------------------------

\* bounds of the address model: the longest string made of every combination
\* of the characters that matter
MaxEmailLen == 5
MaxLineChars == 4

\* n times the character c
Rep(c, n) == [i \in 1..n |-> c]

\* every string of at most n characters of the set A
StringsUpTo(A, n) == UNION {[1..k -> A] : k \in 0..n}

\* an address of t characters whose local part has l: aaa@bbb.c
LongEmail(l, t) == Rep("a", l) \o <<"@">> \o Rep("b", t - l - 3) \o <<".", "c">>

\* the addresses isValidEmail is applied to: every short string of letters,
\* at signs and dots, and addresses at the length limits of the function
EmailInputs ==
    StringsUpTo({"a", "@", "."}, MaxEmailLen)
        \cup {LongEmail(l, t) : l \in {1, 64, 65}, t \in {70, 254, 255}}

\* the command lines extractAddress is applied to
AddressLines == StringsUpTo({"<", ">", ":", " ", "a"}, MaxLineChars)

\* bound of the DATA lines the terminator test is applied to
MaxDataLineChars == 3

\* the lines read in the DATA phase that the terminator test is applied to:
\* dots, spaces, tabs and letters before the line terminator
TerminatorLines == {s \o CRLF : s \in StringsUpTo({".", " ", "\t", "a"}, MaxDataLineChars)}

InitAddress ==
    /\ InitSession
    /\ InitCache
    /\ InitListener
    /\ InitRetry
    /\ config = loadConfig(PlainFile)
    /\ \/ \E e \in EmailInputs : applied = [fn |-> "isValidEmail", arg |-> e, returned |-> FALSE]
       \/ \E l \in AddressLines : applied = [fn |-> "extractAddress", arg |-> l, returned |-> FALSE]
       \/ \E d \in TerminatorLines : applied = [fn |-> "IsTerminator", arg |-> d, returned |-> FALSE]

ApplyIsValidEmail ==
    /\ applied.fn = "isValidEmail"
    /\ ~applied.returned
    /\ applied' = [fn |-> "isValidEmail", arg |-> applied.arg, returned |-> TRUE, res |-> isValidEmail(applied.arg)]
    /\ UNCHANGED <<sessVars, TokenCache, now, getVars, sweepVars, listenVars, retryVars>>

ApplyExtractAddress ==
    /\ applied.fn = "extractAddress"
    /\ ~applied.returned
    /\ applied' = [fn |-> "extractAddress", arg |-> applied.arg, returned |-> TRUE, res |-> extractAddress(applied.arg)]
    /\ UNCHANGED <<sessVars, TokenCache, now, getVars, sweepVars, listenVars, retryVars>>

\* the test the DATA loop makes on a line it has read
ApplyIsTerminator ==
    /\ applied.fn = "IsTerminator"
    /\ ~applied.returned
    /\ applied' = [fn |-> "IsTerminator", arg |-> applied.arg, returned |-> TRUE, res |-> IsTerminator(applied.arg)]
    /\ UNCHANGED <<sessVars, TokenCache, now, getVars, sweepVars, listenVars, retryVars>>

NextAddress ==
    \/ ApplyIsValidEmail
    \/ ApplyExtractAddress
    \/ ApplyIsTerminator

SpecAddress == InitAddress /\ [][NextAddress]_vars

\* ---------------------------------------------------------------------
\* parseSubjectBodyAndAttachments applied on its own to the messages of a
\* bounded set. A message is the tree of its MIME entities; every part of
\* these messages decodes without error.
\* ---------------------------------------------------------------------

\* bounds of the message model: the parts of the outer multipart and the
\* parts of a multipart inside it
MaxTopParts == 2
MaxInnerParts == 2

\* the limit of the part loop
maxParts == 100

PlainLeaf == [kind |-> "leaf", ctype |-> "text/plain", disposition |-> "", filename |-> "", content |-> "plain text", cte |-> "", contentId |-> "", parts |-> <<>>, ending |-> "eof"]
HtmlLeaf == [kind |-> "leaf", ctype |-> "text/html", disposition |-> "", filename |-> "", content |-> "<p>html</p>", cte |-> "", contentId |-> "", parts |-> <<>>, ending |-> "eof"]
AttLeafA == [kind |-> "leaf", ctype |-> "application/pdf", disposition |-> "attachment", filename |-> "a.pdf", content |-> "A", cte |-> "", contentId |-> "", parts |-> <<>>, ending |-> "eof"]
\* an image shown in the body: Content-Disposition inline and a Content-Id
InlineLeaf == [kind |-> "leaf", ctype |-> "image/png", disposition |-> "inline", filename |-> "logo.png", content |-> "I", cte |-> "", contentId |-> "<logo@x>", parts |-> <<>>, ending |-> "eof"]
AttLeafB == [kind |-> "leaf", ctype |-> "application/pdf", disposition |-> "attachment", filename |-> "b.pdf", content |-> "B", cte |-> "", contentId |-> "", parts |-> <<>>, ending |-> "eof"]

\* a multipart entity; what a reader of the enclosing multipart gets as its
\* content is its encoded text, boundary lines and part headers included
Multipart(subtype, ps) ==
    [kind |-> "multi", ctype |-> subtype, disposition |-> "", filename |-> "",
     content |-> "--inner ... --inner--", cte |-> "", contentId |-> "", parts |-> ps, ending |-> "eof"]

\* attachments the loop leaves out: one whose base64 text does not decode, one
\* without a filename, one without content
BadAtt == [kind |-> "leaf", ctype |-> "application/pdf", disposition |-> "attachment", filename |-> "bad.pdf", content |-> "!!", cte |-> "base64", contentId |-> "", parts |-> <<>>, ending |-> "eof"]
NoNameAtt == [kind |-> "leaf", ctype |-> "application/pdf", disposition |-> "attachment", filename |-> "", content |-> "N", cte |-> "", contentId |-> "", parts |-> <<>>, ending |-> "eof"]
EmptyAtt == [kind |-> "leaf", ctype |-> "application/pdf", disposition |-> "attachment", filename |-> "empty.pdf", content |-> "", cte |-> "", contentId |-> "", parts |-> <<>>, ending |-> "eof"]

\* what stands for the content of a part that is cut off before its closing
\* boundary: reading it ends with io.ErrUnexpectedEOF
CutOff == "(cut off)"

\* an attachment that is cut off
CutOffAtt == [kind |-> "leaf", ctype |-> "application/pdf", disposition |-> "attachment", filename |-> "cut.pdf", content |-> CutOff, cte |-> "", contentId |-> "", parts |-> <<>>, ending |-> "eof"]

BodyLeafs == {PlainLeaf, HtmlLeaf}
Leafs == {PlainLeaf, HtmlLeaf, AttLeafA, AttLeafB, InlineLeaf, BadAtt, NoNameAtt, EmptyAtt, CutOffAtt}

\* the multiparts found inside another one
InnerMultiparts ==
    {Multipart("multipart/alternative", ps) :
        ps \in UNION {[1..k -> {PlainLeaf, HtmlLeaf, AttLeafB}] : k \in 1..MaxInnerParts}}

\* a multipart/mixed with parts past the limit of the loop: text parts, then
\* an html part and an attachment
LongMessage ==
    Multipart("multipart/mixed",
              [i \in 1..(maxParts + 2) |-> IF i <= maxParts THEN PlainLeaf
                                            ELSE IF i = maxParts + 1 THEN HtmlLeaf ELSE AttLeafA])

\* the multipart/mixed messages whose parts are all read: each ends with its
\* closing boundary
ClosedMessages ==
    {Multipart("multipart/mixed", ps) :
        ps \in UNION {[1..k -> Leafs \cup InnerMultiparts] : k \in 0..MaxTopParts}}
        \cup {LongMessage}

\* the messages: one body, or a multipart/mixed of leafs and multiparts that
\* ends with its closing boundary or with an error of NextPart (no boundary
\* parameter, or the text ends before the closing boundary)
\* a part that is cut off is the last one NextPart returns, and what follows
\* it is an error
CutOffLast(m) ==
    \A i \in 1..Len(m.parts) : m.parts[i] = CutOffAtt => (i = Len(m.parts) /\ m.ending = "error")

Messages ==
    BodyLeafs \cup
    {m \in ClosedMessages \cup {[n EXCEPT !.ending = "error"] : n \in ClosedMessages} : CutOffLast(m)}

\* strings.Contains(strings.ToLower(ct), "html") on the content types of the model
IsHtml(ct) == ct \in {"text/html"}

\* strings.HasPrefix(mediaType, "multipart/") on the content types of the model
IsMultipart(ct) == ct \in {"multipart/mixed", "multipart/alternative"}

\* base64.StdEncoding.EncodeToString on the contents of the model
EncodeToString(c) == CASE c = "A" -> "QQ==" [] c = "B" -> "Qg==" [] c = "I" -> "SQ==" [] OTHER -> ""

\* decodeMessage on the contents of the model: base64 text is decoded, what is
\* not base64 text is an error, any other encoding is read as it is
decodeMessage(c, r) ==
    IF r = CutOff THEN [err |-> TRUE, content |-> ""]
    ELSE IF c = "base64"
    THEN CASE r = "QQ==" -> [err |-> FALSE, content |-> "A"]
           [] OTHER -> [err |-> TRUE, content |-> ""]
    ELSE [err |-> FALSE, content |-> r]

OnAttachmentDecodeErrorAlwaysSkip(strict) == "skip"

\* what the loop does with an attachment that does not decode
OnAttachmentDecodeError(strict) == IF strict THEN "fail" ELSE "skip"

\* what the function returns when it gives up
ParseFailed == [err |-> TRUE, body |-> "", isHTML |-> FALSE, attachments |-> <<>>]

\* mr.NextPart() for the part numbered i: the part, io.EOF or an error
NextPart(m, i) ==
    IF i <= Len(m.parts) THEN [err |-> "", part |-> m.parts[i]]
    ELSE IF m.ending = "eof" THEN [err |-> "EOF"]
    ELSE [err |-> "multipart: NextPart"]

\* the body of the loop for the part p, with what the loop has gathered; a
\* failed walk stays failed (the function has returned)
PartStep(p, acc, c) ==
    IF acc.err THEN acc
    ELSE LET d == decodeMessage(p.cte, p.content)
         IN  IF p.disposition = "attachment"
             THEN IF d.err
                  THEN IF OnAttachmentDecodeError(c.StrictAttachments) = "fail" THEN ParseFailed ELSE acc
                  ELSE IF p.filename = "" \/ p.ctype = "" \/ d.content = "" THEN acc
                  ELSE [acc EXCEPT !.attachments = Append(@, [Filename |-> p.filename,
                                                              ContentType |-> p.ctype,
                                                              Content |-> EncodeToString(d.content)])]
             ELSE IF d.err THEN acc
                  ELSE [acc EXCEPT !.body = d.content, !.isHTML = @ \/ IsHtml(p.ctype)]

\* the number of the last part the loop works on: it ends on io.EOF or an
\* error of NextPart, and when partCount passes maxParts
LastPart(m) ==
    LET stops == {i \in 1..(Len(m.parts) + 1) : NextPart(m, i).err # "" \/ i > maxParts}
    IN  (CHOOSE i \in stops : \A k \in stops : i <= k) - 1

\* the loop over the parts numbered lo to hi, in that order (the range is
\* halved so that the evaluation stays shallow)
RECURSIVE PartLoop(_, _, _, _, _)
PartLoop(m, lo, hi, acc, c) ==
    IF acc.err \/ lo > hi THEN acc
    ELSE IF lo = hi THEN PartStep(NextPart(m, lo).part, acc, c)
    ELSE PartLoop(m, (lo + hi) \div 2 + 1, hi, PartLoop(m, lo, (lo + hi) \div 2, acc, c), c)

\* parseSubjectBodyAndAttachments under the configuration c: [err, body, isHTML, attachments]
parseSubjectBodyAndAttachments(m, c) ==
    IF IsMultipart(m.ctype)
    THEN PartLoop(m, 1, LastPart(m), [err |-> FALSE, body |-> "", isHTML |-> IsHtml(m.ctype), attachments |-> <<>>], c)
    ELSE LET d == decodeMessage(m.cte, m.content)
         IN  IF d.err THEN ParseFailed
             ELSE [err |-> FALSE, body |-> d.content, isHTML |-> IsHtml(m.ctype), attachments |-> <<>>]

InitMime ==
    /\ InitSession
    /\ InitCache
    /\ InitListener
    /\ InitRetry
    /\ \E strict \in BOOLEAN : config = [loadConfig(PlainFile) EXCEPT !.StrictAttachments = strict]
    /\ \E m \in Messages : applied = [fn |-> "parseSubjectBodyAndAttachments", arg |-> m, returned |-> FALSE]

ApplyParse ==
    /\ applied.fn = "parseSubjectBodyAndAttachments"
    /\ ~applied.returned
    /\ applied' = [fn |-> "parseSubjectBodyAndAttachments", arg |-> applied.arg, returned |-> TRUE,
                   res |-> parseSubjectBodyAndAttachments(applied.arg, config), handled |-> FALSE, then |-> ""]
    /\ UNCHANGED <<sessVars, TokenCache, now, getVars, sweepVars, listenVars, retryVars>>

\* what the session does with the result: 550 and the end of the session, or
\* the token get and the submission
AfterParse ==
    /\ applied.fn = "parseSubjectBodyAndAttachments"
    /\ applied.returned
    /\ ~applied.handled
    /\ applied' = [applied EXCEPT !.handled = TRUE,
                                  !.then = IF applied.res.err THEN "550 5.6.0 Message parsing failed: " ELSE "submit"]
    /\ UNCHANGED <<sessVars, TokenCache, now, getVars, sweepVars, listenVars, retryVars>>

NextMime ==
    \/ ApplyParse
    \/ AfterParse

SpecMime == InitMime /\ [][NextMime]_vars

\* ------------------------------------------------------------ the listener
\* program.Start, program.run and program.Stop: the accept loop, the
\* connection semaphore, the handler goroutines and the shutdown.

\* the capacity of connSem
SemCap(c) == c.MaxConnections

\* the mutant of C2: a send on connSem that is always ready
SemReadyAlways(sem, c) == TRUE

\* a send on connSem is ready
SemReady(sem, c) == sem < SemCap(c)

\* the connections whose handler is inside handleSMTPConnection
Live == {i \in DOMAIN conns : conns[i] = "live"}

\* the connection the accept loop holds between Accept and the select
Pending == {i \in DOMAIN conns : conns[i] = "pending"}

\* Start: the context and the semaphore are made and run is started; run
\* listens, and returns at once when it cannot
RunListen ==
    \E ok \in BOOLEAN :
        /\ lpc = "start"
        /\ lpc' = IF ok THEN "accept" ELSE "returned"
        /\ UNCHANGED <<connSem, wg, conns, ctxDone, listenerClosed, stopPc, sessVars, TokenCache, now, getVars, sweepVars, retryVars, applied, stopTimer>>

\* Accept returns a connection
AcceptConn ==
    /\ lpc = "accept"
    /\ ~listenerClosed
    /\ Len(conns) < MaxArrivals
    /\ conns' = Append(conns, "pending")
    /\ lpc' = "select"
    /\ UNCHANGED <<connSem, wg, ctxDone, listenerClosed, stopPc, sessVars, TokenCache, now, getVars, sweepVars, retryVars, applied, stopTimer>>

\* Accept returns an error, the deadline's timeout or another: the loop ends
\* when the context is cancelled and goes on otherwise
AcceptError ==
    \E timeout \in BOOLEAN :
        /\ lpc = "accept"
        /\ timeout \/ listenerClosed
        /\ lpc' = IF ctxDone THEN "returned" ELSE "accept"
        /\ UNCHANGED <<connSem, wg, conns, ctxDone, listenerClosed, stopPc, sessVars, TokenCache, now, getVars, sweepVars, retryVars, applied, stopTimer>>

\* the select takes the send on connSem: a slot is taken, the wait group
\* counts the handler, and the handler starts
SelectAcquire ==
    \E i \in Pending :
        /\ lpc = "select"
        /\ SemReady(connSem, config)
        /\ connSem' = connSem + 1
        /\ wg' = wg + 1
        /\ conns' = [conns EXCEPT ![i] = "live"]
        /\ lpc' = "accept"
        /\ UNCHANGED <<ctxDone, listenerClosed, stopPc, sessVars, TokenCache, now, getVars, sweepVars, retryVars, applied, stopTimer>>

\* the select takes ctx.Done: the connection is closed and run returns
SelectCtxDone ==
    \E i \in Pending :
        /\ lpc = "select"
        /\ ctxDone
        /\ conns' = [conns EXCEPT ![i] = "dropped"]
        /\ lpc' = "returned"
        /\ UNCHANGED <<connSem, wg, ctxDone, listenerClosed, stopPc, sessVars, TokenCache, now, getVars, sweepVars, retryVars, applied, stopTimer>>

\* the select takes default, no other case being ready: 421 and close
SelectDefault ==
    \E i \in Pending :
        /\ lpc = "select"
        /\ ~SemReady(connSem, config)
        /\ ~ctxDone
        /\ conns' = [conns EXCEPT ![i] = "rejected421"]
        /\ lpc' = "accept"
        /\ UNCHANGED <<connSem, wg, ctxDone, listenerClosed, stopPc, sessVars, TokenCache, now, getVars, sweepVars, retryVars, applied, stopTimer>>

\* the ways handleSMTPConnection ends: QUIT, a failed read or a timeout, an
\* authentication failure, a parse, token or delivery failure, a panic
ExitPaths == {"quit", "read", "auth", "failure", "panic"}

AfterHandlerPanicLeaks(how) == IF how = "panic" THEN "closed" ELSE "release"

\* what follows the handler's end: its deferred function has recovered a
\* panic and closed the connection, and the deferred functions of the
\* goroutine run next, on a return and on a panic alike
AfterHandler(how) == "release"

\* handleSMTPConnection returns (or panics and recovers): the connection is
\* closed
HandlerReturn(i) ==
    \E how \in ExitPaths :
    /\ i \in Live
    /\ conns' = [conns EXCEPT ![i] = AfterHandler(how)]
    /\ UNCHANGED <<lpc, connSem, wg, ctxDone, listenerClosed, stopPc, sessVars, TokenCache, now, getVars, sweepVars, retryVars, applied, stopTimer>>

\* the handler's deferred receive from connSem
HandlerRelease(i) ==
    /\ i \in DOMAIN conns
    /\ conns[i] = "release"
    /\ connSem' = connSem - 1
    /\ conns' = [conns EXCEPT ![i] = "wgdone"]
    /\ UNCHANGED <<lpc, wg, ctxDone, listenerClosed, stopPc, sessVars, TokenCache, now, getVars, sweepVars, retryVars, applied, stopTimer>>

\* the handler's deferred wg.Done
HandlerDone(i) ==
    /\ i \in DOMAIN conns
    /\ conns[i] = "wgdone"
    /\ wg' = wg - 1
    /\ conns' = [conns EXCEPT ![i] = "closed"]
    /\ UNCHANGED <<lpc, connSem, ctxDone, listenerClosed, stopPc, sessVars, TokenCache, now, getVars, sweepVars, retryVars, applied, stopTimer>>

\* Stop cancels the context
StopCancel ==
    /\ stopPc = "idle"
    /\ lpc # "start"
    /\ ctxDone' = TRUE
    /\ stopPc' = "cancelled"
    /\ UNCHANGED <<lpc, connSem, wg, conns, listenerClosed, sessVars, TokenCache, now, getVars, sweepVars, retryVars, applied, stopTimer>>

\* Stop closes the listener, when run has made one
StopCloseListener ==
    /\ stopPc = "cancelled"
    /\ listenerClosed' = TRUE
    /\ stopPc' = "waiting"
    /\ UNCHANGED <<lpc, connSem, wg, conns, ctxDone, sessVars, TokenCache, now, getVars, sweepVars, retryVars, applied, stopTimer>>

\* Stop's wait ends: every handler has returned
StopWaitDone ==
    /\ stopPc = "waiting"
    /\ wg = 0
    /\ stopPc' = "graceful"
    /\ UNCHANGED <<lpc, connSem, wg, conns, ctxDone, listenerClosed, sessVars, TokenCache, now, getVars, sweepVars, retryVars, applied, stopTimer>>

\* time passes while Stop waits in its select
StopTimePasses ==
    /\ stopPc = "waiting"
    /\ stopTimer < StopTimeout
    /\ stopTimer' = stopTimer + StopTick
    /\ UNCHANGED <<lpc, connSem, wg, conns, ctxDone, listenerClosed, stopPc, sessVars, TokenCache, now, getVars, sweepVars, retryVars, applied>>

StopTimerNever(t) == FALSE

\* the channel of time.After(30 * time.Second) is ready
StopTimerFired(t) == t >= StopTimeout

\* Stop's wait ends: thirty seconds have passed
StopWaitTimeout ==
    /\ stopPc = "waiting"
    /\ StopTimerFired(stopTimer)
    /\ stopPc' = "timeout"
    /\ UNCHANGED <<lpc, connSem, wg, conns, ctxDone, listenerClosed, sessVars, TokenCache, now, getVars, sweepVars, retryVars, applied, stopTimer>>

NextListener ==
    \/ RunListen
    \/ AcceptConn
    \/ AcceptError
    \/ SelectAcquire
    \/ SelectCtxDone
    \/ SelectDefault
    \/ \E i \in 1..MaxArrivals : HandlerReturn(i)
    \/ \E i \in 1..MaxArrivals : HandlerRelease(i)
    \/ \E i \in 1..MaxArrivals : HandlerDone(i)
    \/ StopCancel
    \/ StopCloseListener
    \/ StopWaitDone
    \/ StopTimePasses
    \/ StopWaitTimeout

SpecListener == InitCacheSpec /\ [][NextListener]_vars

\* Stop runs on a goroutine of its own and the runtime fires its timer:
\* each of its steps, once enabled, is taken
SpecListenerFair ==
    /\ SpecListener
    /\ WF_vars(StopCloseListener)
    /\ WF_vars(StopTimePasses)
    /\ WF_vars(StopWaitDone \/ StopWaitTimeout)

\* ---------------------------------------------------------------------
\* The token cache and its cleanup goroutine while the service is started
\* and then told to stop.
\* ---------------------------------------------------------------------
NextShutdown ==
    \/ NextCache
    \/ RunListen
    \/ StopCancel
    \/ StopCloseListener

SpecShutdown == InitCacheSpec /\ [][NextShutdown]_vars

\* ------------------------------------------------------------- properties

\* the command lines as the loop holds them after TrimRight
TextMailFrom == TrimRight(LineMailFrom, {CR, LF})
TextMailFromNull == TrimRight(LineMailFromNull, {CR, LF})
TextRcptTo == TrimRight(LineRcptTo, {CR, LF})
TextRcptToBad == TrimRight(LineRcptToBad, {CR, LF})
TextData == TrimRight(LineData, {CR, LF})
TextVrfy == TrimRight(LineVrfy, {CR, LF})
TextQuit == TrimRight(LineQuit, {CR, LF})
TextRset == TrimRight(LineRset, {CR, LF})
TextNoop == TrimRight(LineNoop, {CR, LF})
TextEhlo == TrimRight(LineEhlo, {CR, LF})
TextAuthPlain == TrimRight(LineAuthPlain, {CR, LF})

\* the last reply written
LastReply(o) == IF Len(o) = 0 THEN "" ELSE o[Len(o)].text

\* C1: DATA is answered 354, and the DATA phase entered, only in a session
\* that is authenticated, has a non-empty mailFrom and at least one recipient.
C1_DataNeedsFullEnvelope ==
    [][(pc = "cmd" /\ pc' = "data" /\ LastReply(out') = "354 End data with <CR><LF>.<CR><LF>")
        => (authenticated /\ mailFrom # NoText /\ Len(rcptTo) >= 1)]_vars

\* C2 as stated: the sessions live are never more than MaxConnections, a
\* connection gets a session only when a slot is free, and a connection that
\* gets none is sent 421 and closed while the accept loop goes on.
C2_RejectedAlwaysGets421 ==
    /\ [](Cardinality(Live) <= config.MaxConnections)
    /\ [][\A i \in Pending :
            /\ conns'[i] = "live" => SemReady(connSem, config)
            /\ (~SemReady(connSem, config) /\ conns'[i] # "pending")
                  => (conns'[i] = "rejected421" /\ lpc' = "accept" /\ connSem' = connSem /\ wg' = wg)]_vars

\* C2, amended: the sessions live are never more than MaxConnections and never
\* more than the slots taken; a connection gets a session only when a slot is
\* free at the select; a connection that gets none starts no session, and is
\* sent 421 with the accept loop going on unless the context is cancelled, in
\* which case it is closed with no reply and the accept loop returns.
C2_LiveSessionsBounded ==
    /\ [](Cardinality(Live) <= connSem /\ connSem <= config.MaxConnections)
    /\ [][\A i \in Pending :
            /\ conns'[i] = "live" => (SemReady(connSem, config) /\ connSem' = connSem + 1)
            /\ (conns'[i] # "pending" /\ conns'[i] # "live")
                  => /\ connSem' = connSem /\ wg' = wg
                     /\ IF ctxDone
                        THEN conns'[i] = "dropped" /\ lpc' = "returned"
                        ELSE conns'[i] = "rejected421" /\ lpc' = "accept" /\ ~SemReady(connSem, config)]_vars

\* C2 witness: every slot is taken by a live session and a further connection
\* has been refused with 421
C2_Witness ==
    /\ Cardinality(Live) = config.MaxConnections
    /\ \E i \in DOMAIN conns : conns[i] = "rejected421"
    /\ lpc = "accept"

\* C3: on both cache-hit paths a token is returned from the cache only when
\* the clock is before the expiresAt of the entry it was loaded with.
C3_NoExpiredTokenFromCache ==
    [][\A p \in Procs :
        /\ (gResult'[p] # gResult[p] /\ gResult'[p].path = "hit1")
              => (gLoaded[p].present /\ now < gLoaded[p].entry.expiresAt /\ gResult'[p].token = gLoaded[p].entry.token)
        /\ (gFetched'[p] # gFetched[p] /\ gFetched'[p].path = "hit2")
              => (gLoaded[p].present /\ now < gLoaded[p].entry.expiresAt /\ gFetched'[p].token = gLoaded[p].entry.token)]_vars

\* C3 witness: a caller has returned a token from the re-check inside the
\* single-flight call, and the clock has reached that entry's expiresAt since
C3_Witness ==
    \E p \in Procs :
        /\ gResult[p].done
        /\ gResult[p].path = "hit2"
        /\ gLoaded[p].present
        /\ now >= gLoaded[p].entry.expiresAt

\* the callers inside the single-flight call for the key
InRegion == {p \in Procs : gpc[p] \in {"load2", "check2", "post", "reply", "store", "finish"}}

\* C4 as stated: when every caller started on a cold cache and all have
\* returned, exactly one token request was issued and all hold the same
\* token or the same error.
C4_ExactlyOneRequestOnColdCache ==
    (\A p \in Procs : gCold[p] /\ gResult[p].done)
        => /\ posts = 1
           /\ \A p, q \in Procs : gResult[p].err = gResult[q].err /\ gResult[p].token = gResult[q].token

\* C4, amended: at most one caller is inside the single-flight call for the
\* key at a time; a caller issues at most one request, and only from inside
\* the call after its re-check found no unexpired entry; a caller that joined
\* a call in flight issues none and returns the token or error of the caller
\* that ran it; when all but one of the callers joined, one request was issued.
C4_OneRequestPerFlight ==
    /\ Cardinality(InRegion) <= 1
    /\ \A p \in Procs :
          /\ gPosted[p] <= 1
          /\ gPosted[p] = 1 => (gpc[p] \in {"reply", "store", "finish", "done"} /\ ~LoadedValid(gLoaded[p], now))
          /\ (gResult[p].done /\ gResult[p].path = "shared")
                => /\ gPosted[p] = 0
                   /\ gJoined[p] \in Procs
                   /\ gResult[gJoined[p]].done
                   /\ gResult[p].err = gResult[gJoined[p]].err
                   /\ gResult[p].token = gResult[gJoined[p]].token
    /\ ((\A p \in Procs : gResult[p].done) /\ Cardinality({p \in Procs : gResult[p].path # "shared"}) = 1)
          => posts = 1

\* C4 witness: both callers started cold, one ran the fetch and stored a
\* token, the other joined its call and holds the same token
C4_Witness ==
    /\ \A p \in Procs : gCold[p] /\ gResult[p].done /\ ~gResult[p].err
    /\ \E p \in Procs : gResult[p].path = "shared"
    /\ posts = 1

\* the replies that report a failed DATA transaction
FailureReplies ==
    {"550 5.6.0 Message parsing failed: ", "451 4.7.0 Temporary authentication failure",
     "550 5.7.0 Delivery failed: ", "552 5.3.4 Message too large (max %d bytes)"}

\* C5: a DATA transaction whose terminator is read is answered 250 queued
\* exactly when its Graph submission ended with a status below 300; every
\* other one, and every oversize message, is answered 550, 451 or 552, and in
\* either case nothing of the message is kept.
C5_QueuedIffDelivered ==
    [][/\ (pc = "data" /\ out' # out /\ pc' # "drain")
            => /\ LastReply(out') = "250 2.0.0 Ok: queued as graphapi"
                    <=> (graphPost'.made /\ graphPost'.status # NoResp /\ graphPost'.status < 300)
               /\ LastReply(out') # "250 2.0.0 Ok: queued as graphapi"
                    => (LastReply(out') \in FailureReplies /\ pc' = "closed")
               /\ dataBuffer' = NoText
       /\ (pc = "data" /\ pc' = "drain")
            => (LastReply(out') = "552 5.3.4 Message too large (max %d bytes)" /\ ~graphPost'.made)
       /\ (pc = "drain" /\ pc' # "drain")
            => (dataBuffer' = NoText /\ ~graphPost'.made /\ "250 2.0.0 Ok: queued as graphapi" \notin {out'[i].text : i \in DOMAIN out'})]_vars

\* C5 witness: a transaction has been answered 250 queued after a submission
\* that took a retry and ended with 202
C5_Witness ==
    /\ pc = "cmd"
    /\ LastReply(out) = "250 2.0.0 Ok: queued as graphapi"
    /\ graphPost.made
    /\ graphPost.status = 202
    /\ graphPost.attempts = 2

\* C6: in a session not authenticated, MAIL FROM, RCPT TO, DATA and an
\* unrecognized command are each answered 530, with mailFrom, rcptTo and
\* authenticated left as they were and the session still reading commands.
C6_UnauthenticatedGets530 ==
    [][(pc = "cmd" /\ ~authenticated /\ line' \in {TextMailFrom, TextMailFromNull, TextRcptTo, TextRcptToBad, TextData, TextVrfy})
        => /\ out' = <<Reply("530 5.7.0 Authentication required")>>
           /\ mailFrom' = mailFrom
           /\ rcptTo' = rcptTo
           /\ authenticated' = authenticated
           /\ pc' = "cmd"]_vars

\* C6 witness: a session not authenticated has sent DATA and holds the 530
C6_Witness ==
    /\ pc = "cmd"
    /\ ~authenticated
    /\ line = TextData
    /\ out = <<Reply("530 5.7.0 Authentication required")>>

\* C7: QUIT, RSET and NOOP are accepted wherever a command is read, before
\* authentication too: QUIT is answered 221 and ends the session, RSET and
\* NOOP are answered 250, and none is answered 530.
C7_QuitRsetNoopAlwaysAccepted ==
    [][/\ (pc = "cmd" /\ line' = TextQuit) => (out' = <<Reply("221 2.0.0 Bye")>> /\ pc' = "closed")
       /\ (pc = "cmd" /\ line' \in {TextRset, TextNoop}) => (out' = <<Reply("250 2.0.0 Ok")>> /\ pc' = "cmd")]_vars

\* C8: an AUTH exchange whose decoded username and password are both
\* non-empty ends with 235 and the session authenticated exactly when the
\* token get for that username succeeds; when the get fails it ends with
\* 535 Authentication failed, the session closed and authenticated untouched.
C8_AuthFollowsTokenGet ==
    [][(pc = "authCheck" /\ ~CredentialsMissing(username, password))
        => /\ Len(tokenGets') = Len(tokenGets) + 1
           /\ LET g == tokenGets'[Len(tokenGets')]
              IN  /\ g.user = username /\ g.pass = password /\ ~g.fallback
                  /\ ~g.err <=> (LastReply(out') = "235 2.7.0 Authentication successful" /\ authenticated' /\ pc' = "cmd")
                  /\ g.err => /\ LastReply(out') = "535 5.7.8 Authentication failed"
                              /\ pc' = "closed"
                              /\ authenticated' = authenticated]_vars

\* C8 witness: an exchange with the client's own credentials has ended with
\* 235 and the session authenticated
C8_Witness ==
    /\ pc = "cmd"
    /\ authenticated
    /\ username = User1
    /\ password = Pass1
    /\ Len(tokenGets) = 1
    /\ ~tokenGets[1].err
    /\ LastReply(out) = "235 2.7.0 Authentication successful"

C10_AuthPlainSupported ==
    [][/\ (pc = "cmd" /\ line' = TextAuthPlain)
            => (LastReply(out') \notin {"", "530 5.7.0 Authentication required", "502 5.5.2 Command not implemented"})
       /\ (pc = "cmd" /\ line' = TextEhlo)
            => (\E i \in DOMAIN out' : out'[i].text \in {"250 AUTH LOGIN PLAIN", "250-AUTH LOGIN PLAIN", "250 AUTH PLAIN", "250-AUTH PLAIN", "250 AUTH PLAIN LOGIN", "250-AUTH PLAIN LOGIN"})]_vars

\* C11: the envelope never holds more than 500 recipients; an RCPT TO with a
\* valid address that arrives when 500 are held is answered
\* 452 4.5.3 Too many recipients and leaves the recipient list as it was.
C11_RecipientCeiling ==
    /\ [](Len(rcptTo) <= RecipientLimit)
    /\ [][(/\ authenticated
           /\ pc = "cmd"
           /\ line' = TextRcptTo
           /\ Len(rcptTo) >= RecipientLimit)
          => (/\ LastReply(out') = "452 4.5.3 Too many recipients"
              /\ rcptTo' = rcptTo)]_vars

\* C12: the DATA buffer never holds more than max_message_size bytes, the
\* running count of a message still being collected never exceeds it, a
\* message is normalised and submitted only at the terminator of a message
\* whose count stayed within the limit, and once the count has exceeded the
\* limit nothing of that message is buffered or submitted.
C12_BufferWithinLimit ==
    /\ [](Len(dataBuffer) <= config.MaxMessageSize)
    /\ [](pc = "data" => messageSize <= config.MaxMessageSize)
    /\ [][(graphPost'.made /\ graphPost' # graphPost)
          => (/\ pc = "data"
              /\ messageSize <= config.MaxMessageSize
              /\ Len(dataBuffer) <= config.MaxMessageSize)]_vars
    /\ [][(pc = "data" /\ messageSize' > config.MaxMessageSize)
          => (pc' = "drain" /\ dataBuffer' = dataBuffer /\ graphPost' = graphPost)]_vars
    /\ [][pc = "drain"
          => (/\ pc' \in {"drain", "cmd", "closed"}
              /\ graphPost' = graphPost
              /\ Len(dataBuffer') <= Len(dataBuffer))]_vars

\* a message is refused while the buffer holds exactly max_message_size bytes
C12_Witness ==
    /\ pc = "drain"
    /\ Len(dataBuffer) = config.MaxMessageSize
    /\ messageSize > config.MaxMessageSize

\* C13: a DATA whose running count exceeds max_message_size is answered
\* 552 5.3.4 Message too large (max N bytes); the lines that follow, up to
\* the terminator, are consumed without a reply and without being taken
\* for commands; at the terminator the envelope is empty and the session is
\* back at the command prompt, still authenticated, with nothing more
\* written to the client; a following MAIL FROM is answered 250.
C13_OversizeRecovery ==
    /\ [][(pc = "data" /\ messageSize' > config.MaxMessageSize)
          => (/\ out' = Append(out, ReplyErr("552 5.3.4 Message too large (max %d bytes)", ToString(config.MaxMessageSize)))
              /\ pc' = "drain")]_vars
    /\ [][pc = "drain"
          => (/\ out' = out
              /\ authenticated' /\ authenticated
              /\ pc' \in {"drain", "cmd"}
              /\ (pc' = "cmd" => (mailFrom' = NoText /\ rcptTo' = <<>>)))]_vars
    /\ [][(authenticated /\ pc = "cmd" /\ line' = TextMailFrom)
          => LastReply(out') = "250 2.1.0 Ok"]_vars

\* the bytes RFC 5321 4.5.2 asks a receiver to keep of a DATA line
Unstuffed(d) == IF Len(d) > 0 /\ d[1] = "." THEN Tail(d) ELSE d

\* C14: every line of the DATA phase that is not the terminator is appended
\* to the buffer with one leading dot removed when it starts with a dot, and
\* the running count grows by the length of what was appended.
C14_DotUnstuffed ==
    [][(pc = "data" /\ pc' = "data" /\ messageSize' # messageSize)
       => \E d \in DataLines :
              /\ ~IsTerminator(d)
              /\ dataBuffer' = dataBuffer \o Unstuffed(d)
              /\ messageSize' = messageSize + Len(Unstuffed(d))]_vars

\* C15: the step that answers a DATA transaction 250, and every RSET read in
\* an authenticated session, leave mailFrom and rcptTo empty and leave the
\* authenticated flag, the login name and the password as they were.
C15_EnvelopeResetKeepsLogin ==
    [][(\/ (pc = "data" /\ out' = Append(out, Reply("250 2.0.0 Ok: queued as graphapi")))
        \/ (authenticated /\ pc = "cmd" /\ line' = TextRset))
       => (/\ mailFrom' = NoText
           /\ rcptTo' = <<>>
           /\ authenticated' /\ authenticated
           /\ username' = username
           /\ password' = password)]_vars

\* a message with sender and recipient was delivered and the envelope is empty
C15_Witness ==
    /\ authenticated
    /\ username = User1
    /\ LastReply(out) = "250 2.0.0 Ok: queued as graphapi"
    /\ graphPost.made
    /\ graphPost.from # NoText
    /\ Len(graphPost.to) > 0
    /\ mailFrom = NoText
    /\ rcptTo = <<>>

\* C16: under every configuration file, retry_attempts of 0 or below counting
\* as 3, and for every sequence of outcomes, one submission makes at least
\* one and at most retry_attempts HTTP attempts, and doWithRetry never
\* returns a nil response together with a nil error.
C16_AttemptsWithinBudget ==
    rRun.kind = "submit"
    => LET budget == IF rFile.RetryAttempts < 1 THEN 3 ELSE rFile.RetryAttempts
       IN  /\ rRun.res.attempts >= 1
           /\ rRun.res.attempts <= budget
           /\ ~(rRun.res.resp = NoResp /\ rRun.res.err = "")

\* a file with retry_attempts not positive, every one of three attempts used
C16_Witness ==
    /\ rRun.kind = "submit"
    /\ rFile.RetryAttempts < 1
    /\ rRun.res.attempts = 3
    /\ rRun.res.err # ""

\* v * 2^k in units, or the ceiling once the product has passed it
RECURSIVE CappedShl(_, _, _)
CappedShl(v, k, ceiling) ==
    IF v >= ceiling THEN ceiling
    ELSE IF k <= 0 \/ v <= 0 THEN v
    ELSE CappedShl(2 * v, k - 1, ceiling)

\* C17: for every attempt number a below retry_attempts and every initial
\* backoff, the wait before the next attempt is computed without a fault
\* and is d + j, where d is the lesser of initial_backoff * 2^(a-1) and 10
\* seconds and 0 <= j < d/4; it is not negative and not above 12.5 seconds.
C17_WaitWithinBounds ==
    rRun.kind = "wait"
    => LET initial == loadConfig(rRun.file).RetryInitialDelay * UnitsPerMs
           d == CappedShl(initial, rRun.attempt - 1, 10000 * UnitsPerMs)
       IN  /\ ~rRun.wait.panic
           /\ rRun.wait.backoff = d
           /\ \A j \in rRun.wait.jitter :
                  /\ 0 <= j /\ 4 * j < d
                  /\ rRun.wait.backoff + j >= 0
                  /\ rRun.wait.backoff + j <= 12500 * UnitsPerMs

\* an attempt that met a transport error or a status of the retryable set
Retried(o) == ~o.ctxDone /\ (o.neterr \/ o.status \in {429, 500, 502, 503, 504})

\* an attempt that met a response with any other status
Answered(o) == ~o.ctxDone /\ ~o.neterr /\ o.status \notin {429, 500, 502, 503, 504}

\* C18: every attempt but the last of a submission met a transport error or
\* a retryable status; the first response with another status, after k
\* attempts that were retried, is returned at once, so the submission has
\* made exactly k+1 requests, and when that status is a success the session
\* replies 250.
C18_RetryOnlyOnRetryable ==
    rRun.kind = "submit"
    => /\ \A i \in 1..(rRun.res.attempts - 1) : rRun.env[i].ctxDone \/ Retried(rRun.env[i])
       /\ \A k \in 1..Len(rRun.env) :
              (Answered(rRun.env[k]) /\ \A i \in 1..(k - 1) : Retried(rRun.env[i]))
              => /\ rRun.res.attempts = k
                 /\ rRun.res.resp = rRun.env[k].status
                 /\ rRun.res.err = ""
                 /\ (rRun.env[k].status = 202 => rRun.reply.text = "250 2.0.0 Ok: queued as graphapi")

\* two retried attempts, then a success on the third and last of the budget
C18_Witness ==
    /\ rRun.kind = "submit"
    /\ Len(rRun.env) = 3
    /\ rRun.env[1].neterr
    /\ rRun.env[2].status = 503
    /\ rRun.env[3].status = 202
    /\ rRun.res.attempts = 3
    /\ rRun.reply.text = "250 2.0.0 Ok: queued as graphapi"

\* C19: a token fetch posts one request and no more; when the fetch fails
\* (transport error, OAuth error, no access_token) the call returns the error
\* at once, posts nothing further and stores nothing: the token cache is as
\* it was.
C19_FailedFetchStoresNothing ==
    /\ [](\A p \in Procs : gPosted[p] <= 1)
    /\ [][\A p \in Procs :
            (gpc[p] = "reply" /\ gpc'[p] # "reply" /\ gFetched'[p].err)
            => (/\ gpc'[p] = "finish"
                /\ TokenCache' = TokenCache
                /\ posts' = posts)]_vars
    /\ [][\A p \in Procs :
            (gFetched[p].done /\ gFetched[p].path = "fetch" /\ gFetched[p].err /\ gpc'[p] # gpc[p])
            => (/\ gpc'[p] = "done"
                /\ gResult'[p].err
                /\ TokenCache' = TokenCache
                /\ posts' = posts)]_vars

\* a fetch has failed after its one request while the cache holds an entry
C19_Witness ==
    \E p \in Procs :
        /\ gResult[p].done
        /\ gResult[p].err
        /\ gResult[p].path = "fetch"
        /\ gPosted[p] = 1
        /\ User1 \in DOMAIN TokenCache

\* C20: the entry a fetch stores expires at the time of the store plus the
\* greater of 30 seconds and expires_in - 60 seconds, so that it is valid
\* for at least 30 seconds from the store.
C20_StoredEntryLivesThirtySeconds ==
    [][\A p \in Procs :
          (gpc[p] = "store" /\ gpc'[p] = "finish")
          => LET life == IF gFetched[p].expiresIn - 60 > 30 THEN gFetched[p].expiresIn - 60 ELSE 30
             IN  /\ gArgs[p][1] \in DOMAIN TokenCache'
                 /\ TokenCache'[gArgs[p][1]].expiresAt = now + life
                 /\ TokenCache'[gArgs[p][1]].expiresAt - now >= 30]_vars

\* the sessions that hold a slot: their handler runs, or has ended and its
\* deferred release has not run yet
Holding == {i \in DOMAIN conns : conns[i] \in {"live", "release"}}

\* C21: the number of slots taken equals the number of sessions that took
\* one and have not released it; a session whose handler ends, by whatever
\* path, has its connection closed, then releases its slot, once, and then
\* leaves the wait group; the end of a handler changes nothing of the accept
\* loop or of another session.
C21_SlotsMatchSessions ==
    /\ [](connSem = Cardinality(Holding))
    /\ [](wg = Cardinality({i \in DOMAIN conns : conns[i] \in {"live", "release", "wgdone"}}))
    /\ [][\A i \in DOMAIN conns :
            /\ (conns[i] = "live" /\ conns'[i] # "live")
               => (/\ conns'[i] = "release"
                   /\ lpc' = lpc
                   /\ connSem' = connSem
                   /\ \A j \in DOMAIN conns : j # i => conns'[j] = conns[j])
            /\ (conns[i] = "release" /\ conns'[i] # "release")
               => (conns'[i] = "wgdone" /\ connSem' = connSem - 1)
            /\ (conns[i] \in {"wgdone", "closed"} /\ connSem' < connSem)
               => (\E j \in DOMAIN conns : j # i /\ conns[j] = "release" /\ conns'[j] = "wgdone")]_vars

\* one session has ended and released its slot while another still runs
C21_Witness ==
    \E i, j \in DOMAIN conns :
        /\ conns[i] = "closed"
        /\ conns[j] = "live"
        /\ connSem = 1
        /\ lpc = "accept"

\* C22: once Stop has signalled shutdown it returns; it returns only after
\* the context is cancelled and the listener closed, and only when every
\* handler counted by the wait group has finished or when the thirty seconds
\* of its timer have passed, not before both.
C22_StopReturns ==
    /\ (stopPc = "cancelled" ~> stopPc \in {"graceful", "timeout"})
    /\ [](stopPc \in {"graceful", "timeout"} => (ctxDone /\ listenerClosed))
    /\ [][(stopPc = "waiting" /\ stopPc' # "waiting")
          => (\/ (stopPc' = "graceful" /\ wg = 0)
              \/ (stopPc' = "timeout" /\ stopTimer >= 30))]_vars

\* Stop has returned on its timer while a handler was still running
C22_Witness ==
    /\ stopPc = "timeout"
    /\ stopTimer >= 30
    /\ wg > 0
    /\ \E i \in DOMAIN conns : conns[i] = "live"

\* C23: once shutdown has been signalled the cleanup goroutine starts no
\* sweep and deletes nothing from the token cache.
C23_NoSweepAfterShutdown ==
    [][ctxDone => (/\ ~(swpc = "idle" /\ swpc' = "range")
                   /\ ~(swpc = "delete" /\ swpc' = "range"))]_vars

\* the text of a reply that the handler takes from an error value or a setting
\* of its own; only the 552 reply prints a setting (the configured size limit)
FromOwnSetting(r) == r.text = "552 5.3.4 Message too large (max %d bytes)"

\* C24: every reply line is a fixed string: no reply carries the text of a
\* parse error, of an OAuth error or of a Graph response, so two runs that
\* differ only in those texts send the same bytes.
C24_RepliesAreFixedStrings ==
    \A i \in 1..Len(out) : out[i].detail # "" => FromOwnSetting(out[i])

\* what the clients of the model send as credentials: the base64 texts of the
\* username and password lines and of the argument of an AUTH command, and
\* the texts they decode to
SentEncoded ==
    ({TrimSpace(b) : b \in UserInputs \cup PassInputs}
        \cup {Fields(l)[3] : l \in {LineAuthLoginUser, LineAuthPlain}}) \ {NoText}

SentDecoded == {decodeBase64WithError(TrimSpace(b)).val : b \in UserInputs \cup PassInputs} \ {NoText}

\* a logged text holds credential data: it is a credential, or a field of it is
CarriesCredential(v) ==
    \/ v \in SentEncoded \cup SentDecoded
    \/ \E i \in 1..Len(Fields(v)) : Fields(v)[i] \in SentEncoded \cup SentDecoded

\* C25: no log record holds data derived from the AUTH credentials of the
\* client, whichever form of AUTH the client used.
C25_NoCredentialInLogs ==
    \A i \in 1..Len(logged) : ~CarriesCredential(logged[i].value)

\* C26: MAIL FROM is validated as RCPT TO is: a sender that is empty or not a
\* valid address is refused with 501 5.1.7 and not kept, so a sender the
\* session holds is a valid address; a recipient the session holds is one too.
C26_SenderValidated ==
    /\ mailFrom # NoText => isValidEmail(mailFrom)
    /\ \A i \in 1..Len(rcptTo) : isValidEmail(rcptTo[i])

\* how many times the character c occurs in s
CountChar(s, c) == Cardinality({i \in 1..Len(s) : s[i] = c})

\* the reference predicate of the validity check
ValidAddress(e) ==
    LET at == IndexChar(e, "@")
        local == SubSeq(e, 1, at - 1)
        domain == SubSeq(e, at + 1, Len(e))
    IN  /\ Len(e) > 0
        /\ Len(e) <= 254
        /\ CountChar(e, "@") = 1
        /\ Len(local) >= 1 /\ Len(local) <= 64
        /\ Len(domain) >= 1 /\ Len(domain) <= 253
        /\ ContainsChar(domain, ".")

\* C27: isValidEmail is true exactly for the strings that are non-empty, at
\* most 254 characters long, hold exactly one at sign, a local part of 1 to 64
\* characters and a domain of 1 to 253 characters with a dot in it.
C27_ValidExactlyWhenWellFormed ==
    (applied.fn = "isValidEmail" /\ applied.returned)
        => (applied.res <=> ValidAddress(applied.arg))

\* s up to its first white space
FirstToken(s) == IF IndexSpace(s) = 0 THEN s ELSE SubSeq(s, 1, IndexSpace(s) - 1)

\* the reference function of the address extraction
AddressOf(l) ==
    LET start == IndexChar(l, "<")
        end == IndexChar(l, ">")
        colon == IndexChar(l, ":")
    IN  IF start # 0 /\ end # 0 /\ end > start THEN SubSeq(l, start + 1, end - 1)
        ELSE IF colon # 0 THEN FirstToken(TrimSpace(SubSeq(l, colon + 1, Len(l))))
        ELSE NoText

\* C28: extractAddress returns the text between the first < and > when both
\* are there in that order, and otherwise the text after the first colon,
\* trimmed and cut at its first white space.
C28_AddressExtracted ==
    (applied.fn = "extractAddress" /\ applied.returned)
        => applied.res = AddressOf(applied.arg)

\* the leaf entities of a message, depth first
RECURSIVE LeafsOf(_), LeafsFrom(_, _)
LeafsOf(m) == IF m.kind = "leaf" THEN <<m>> ELSE LeafsFrom(m.parts, 1)

\* the leaf entities of the parts ps from the one numbered i on
LeafsFrom(ps, i) == IF i > Len(ps) THEN <<>> ELSE LeafsOf(ps[i]) \o LeafsFrom(ps, i + 1)

IsBodyLeaf(p) == p.disposition # "attachment"
IsAttachmentLeaf(p) == p.disposition = "attachment"

\* the contents of the text/html body parts of a message
HtmlContents(m) ==
    {LeafsOf(m)[i].content : i \in {j \in 1..Len(LeafsOf(m)) : IsBodyLeaf(LeafsOf(m)[j]) /\ LeafsOf(m)[j].ctype = "text/html"}}

HasPlainBody(m) == \E i \in 1..Len(LeafsOf(m)) : IsBodyLeaf(LeafsOf(m)[i]) /\ LeafsOf(m)[i].ctype = "text/plain"

\* C29: for a multipart message with a text/plain and a text/html body part,
\* in either order, the body returned is the content of the html part and
\* isHTML is true; isHTML is true only when the body is the content of a
\* text/html part.
C29_HtmlPreferred ==
    (applied.fn = "parseSubjectBodyAndAttachments" /\ applied.returned)
        => /\ (applied.arg.kind = "multi" /\ HasPlainBody(applied.arg) /\ HtmlContents(applied.arg) # {})
                => (applied.res.isHTML /\ applied.res.body \in HtmlContents(applied.arg))
           /\ applied.res.isHTML => applied.res.body \in HtmlContents(applied.arg)

\* C30: the walk is depth first over the whole tree: the body is the content
\* of a leaf body part, that of the html leaf when there is one, and the
\* attachments are the attachment leafs in depth-first order.
C30_DepthFirstWalk ==
    (applied.fn = "parseSubjectBodyAndAttachments" /\ applied.returned)
        => LET leafs == LeafsOf(applied.arg)
               bodies == SelectSeq(leafs, IsBodyLeaf)
               atts == SelectSeq(leafs, IsAttachmentLeaf)
           IN  /\ bodies # <<>> => \E i \in 1..Len(bodies) : applied.res.body = bodies[i].content
               /\ Len(applied.res.attachments) = Len(atts)
               /\ \A i \in 1..Len(atts) : /\ i <= Len(applied.res.attachments)
                                          /\ applied.res.attachments[i].Filename = atts[i].filename

\* a Content-Id value without its angle brackets
StripAngles(id) == CASE id = "<logo@x>" -> "logo@x" [] OTHER -> id

\* the parts of a message that are inline parts with a Content-Id
InlineParts(m) ==
    {LeafsOf(m)[i] : i \in {j \in 1..Len(LeafsOf(m)) : LeafsOf(m)[j].disposition = "inline" /\ LeafsOf(m)[j].contentId # ""}}

\* the entry of the attachments returned that bears the filename f, if any
EntriesFor(res, f) == {i \in 1..Len(res.attachments) : res.attachments[i].Filename = f}

\* an entry of the attachments returned is marked inline
MarkedInline(att) == "IsInline" \in DOMAIN att /\ att.IsInline

\* C31: an inline part with a Content-Id is returned as an attachment marked
\* inline, with its content id without the angle brackets, and never becomes
\* the body; a regular attachment is returned not marked inline.
C31_InlinePartReturnedAsAttachment ==
    (applied.fn = "parseSubjectBodyAndAttachments" /\ applied.returned)
        => /\ \A p \in InlineParts(applied.arg) :
                  /\ applied.res.body # p.content
                  /\ \E i \in EntriesFor(applied.res, p.filename) :
                         /\ MarkedInline(applied.res.attachments[i])
                         /\ applied.res.attachments[i].ContentID = StripAngles(p.contentId)
           /\ \A i \in 1..Len(applied.res.attachments) :
                  applied.res.attachments[i].Filename \in {"a.pdf", "b.pdf"}
                      => ~MarkedInline(applied.res.attachments[i])

\* the direct parts of a message that are attachments whose decoding fails
FailsToDecode(p) == p.disposition = "attachment" /\ decodeMessage(p.cte, p.content).err

\* the message without those parts
WithoutUndecodable(m) == [m EXCEPT !.parts = SelectSeq(@, LAMBDA p : ~FailsToDecode(p))]

HasUndecodable(m) == \E i \in 1..Len(m.parts) : FailsToDecode(m.parts[i])

\* C32: when an attachment does not decode, strict_attachments = true makes
\* the function return an error and the message is not submitted; with
\* strict_attachments = false only that attachment is left out, the body and
\* the other attachments are what they are without it and the message is
\* submitted. No attachment returned has an empty filename or empty content.
C32_StrictAttachments ==
    (applied.fn = "parseSubjectBodyAndAttachments" /\ applied.returned /\ applied.arg.kind = "multi")
        => /\ (config.StrictAttachments /\ HasUndecodable(applied.arg)) => applied.res.err
           /\ ~config.StrictAttachments
                => /\ ~applied.res.err
                   /\ applied.res = parseSubjectBodyAndAttachments(WithoutUndecodable(applied.arg), config)
           /\ ~applied.res.err
                => \A i \in 1..Len(applied.res.attachments) :
                       /\ applied.res.attachments[i].Filename # ""
                       /\ applied.res.attachments[i].Content # EncodeToString("")
                       /\ applied.res.attachments[i].Filename \notin {BadAtt.filename, EmptyAtt.filename}
           /\ applied.handled => (applied.then = "submit" <=> ~applied.res.err)

C32_Witness ==
    /\ applied.fn = "parseSubjectBodyAndAttachments"
    /\ applied.returned
    /\ applied.handled
    /\ ~config.StrictAttachments
    /\ applied.arg.kind = "multi"
    /\ applied.arg.parts = <<BadAtt, AttLeafA>>
    /\ Len(applied.res.attachments) = 1
    /\ applied.then = "submit"

\* the message cut after the parts the loop may work on, with its closing boundary
FirstParts(m) ==
    [m EXCEPT !.parts = SubSeq(@, 1, IF Len(@) > maxParts THEN maxParts ELSE Len(@)), !.ending = "eof"]

\* every attachment of the message whose text is there decodes
TextDecodes(m) ==
    \A i \in 1..Len(m.parts) : FailsToDecode(m.parts[i]) => m.parts[i].content = CutOff

\* C33: the walk works on at most 100 parts, stops at the first error of the
\* MIME reader (no boundary, a part that is cut off) or at the limit, and
\* returns what it has gathered with no error for the whole message.
C33_WalkStopsCleanly ==
    (applied.fn = "parseSubjectBodyAndAttachments" /\ applied.returned
        /\ applied.arg.kind = "multi" /\ TextDecodes(applied.arg))
        => /\ ~applied.res.err
           /\ applied.res = parseSubjectBodyAndAttachments(FirstParts(applied.arg), config)

\* C34: a caller is given a token for the login identifier U and the secret P
\* (and its session answered 235) only if the token endpoint accepts the pair
\* (U, P): a wrong secret is not accepted because a token for U is cached or
\* a fetch for U is in flight.
C34_WrongSecretNeverAccepted ==
    \A p \in Procs :
        (gResult[p].done /\ ~gResult[p].err) => <<gArgs[p][1], gArgs[p][2]>> \in ValidCreds

\* C36: the cleanup removes only expired entries: the entry it deletes is not
\* one that a cache lookup at that moment would still serve.
C36_SweepRemovesOnlyExpired ==
    [][(swpc = "delete" /\ swpc' = "range" /\ swKey \in DOMAIN TokenCache)
          => ~Before(now, TokenCache[swKey].expiresAt)]_vars

\* C35: the token get and the Graph submission that end a DATA transaction
\* are made as the login identifier of the last AUTH exchange the session
\* completed with 235, and an AUTH exchange that is aborted with 501 leaves
\* the authenticated flag as it was and, in an authenticated session, the
\* login identifier and the secret those of that last 235.
C35_ActsAsLastAuthenticated ==
    [][/\ (pc = "data" /\ Len(tokenGets') > 0)
            => /\ authedAs.set
               /\ tokenGets'[Len(tokenGets')].user = authedAs.user
               /\ (graphPost'.made => graphPost'.sender = authedAs.user)
       /\ (pc \in {"cmd", "authUser", "authPass"} /\ pc' = "cmd" /\ Len(out') > 0
             /\ out'[Len(out')].text = "501 5.5.4 Invalid base64 encoding")
            => /\ authenticated' = authenticated
               /\ (authenticated => (authedAs.set /\ username' = authedAs.user /\ password' = authedAs.pass))]_vars

\* the first half of C35 alone: the token get of a DATA transaction is made
\* as the login identifier of the last 235
TokenGetAsLastAuthenticated ==
    [][(pc = "data" /\ Len(tokenGets') > 0)
            => (authedAs.set /\ tokenGets'[Len(tokenGets')].user = authedAs.user)]_vars

\* the replies that end a DATA transaction answered 354
FinalDataReplies ==
    {"250 2.0.0 Ok: queued as graphapi", "451 4.7.0 Temporary authentication failure",
     "550 5.6.0 Message parsing failed: ", "550 5.7.0 Delivery failed: ",
     "552 5.3.4 Message too large (max %d bytes)"}

\* C37: a DATA command answered 354 gets exactly one more reply, one of 250,
\* 451, 550 and 552 (none when the client is gone or the handler stopped on
\* a fault): no second reply follows, not after a 552 either.
C37_OneFinalReply ==
    (pc \in {"cmd", "closed"} /\ line = TextData /\ Len(out) > 0
        /\ out[1].text = "354 End data with <CR><LF>.<CR><LF>")
      => /\ Len(out) <= 2
         /\ (Len(out) = 2 => out[2].text \in FinalDataReplies)

\* C39: the DATA phase ends on a line exactly when the line is the single
\* character . followed by the line terminator; a line that holds spaces or
\* tabs around the dot is content.
C39_OnlyBareDotEndsData ==
    (applied.fn = "IsTerminator" /\ applied.returned)
        => (applied.res <=> TrimRight(applied.arg, {CR, LF}) = <<".">>)

\* the connections that were handed to a handler
StartedIn(cs) == {i \in DOMAIN cs : cs[i] \notin {"pending", "dropped", "rejected421"}}

\* C38: once Stop has cancelled the context, closed the listener and begun to
\* wait, no session is started: the wait group's counter is not raised and
\* no connection is handed to a handler.
C38_NoSessionAfterShutdown ==
    [][(stopPc \in {"waiting", "graceful", "timeout"}) => (wg' <= wg /\ StartedIn(conns') \subseteq StartedIn(conns))]_vars

\* ---------------------------------------------------------------------
\* The deadlines handleSMTPConnection sets on its socket. The handler sets
\* one deadline for reads and writes when it starts, and a read deadline
\* before it reads each command and each DATA line; a command is held here
\* by the time the client lets pass before it sends it, and its reply by
\* whether the write reaches the socket.

\* config.ConnectionTimeout when the file does not set it
DefaultConnectionTimeout == 300

\* the seconds the handler allows for a command line to arrive
CommandReadTimeout == 60

\* how long the session is followed, in seconds
MaxSessionTime == 480

\* the values of connection_timeout the sessions run under
ConnectionTimeouts == {120, DefaultConnectionTimeout}

\* the seconds a client lets pass before it sends its next line
ClientDelays == {30, 45, 60, 90}

\* a write on the socket at time t under the write deadline d
WriteAt(t, d) == IF After(t, d) THEN "failed" ELSE "written"

InitDeadline ==
    /\ InitSession
    /\ InitCache
    /\ InitListener
    /\ InitRetry
    /\ InitApplied
    /\ config = loadConfig(PlainFile)

\* the handler starts: conn.SetDeadline, then the greeting
HandlerStart ==
    \E timeout \in ConnectionTimeouts :
        /\ sock.at = "none"
        /\ sock' = [at |-> "loop", timeout |-> timeout, started |-> now,
                    readDeadline |-> now + timeout, writeDeadline |-> now + timeout,
                    lastWrite |-> [reply |-> "220", fate |-> WriteAt(now, now + timeout)]]
        /\ UNCHANGED <<handlerVars, TokenCache, now, getVars, sweepVars, listenVars, retryVars, applied>>

\* the top of the command loop (and of the DATA loop): conn.SetReadDeadline
LoopSetReadDeadline ==
    /\ sock.at = "loop"
    /\ sock' = [sock EXCEPT !.at = "read", !.readDeadline = now + CommandReadTimeout]
    /\ UNCHANGED <<handlerVars, TokenCache, now, getVars, sweepVars, listenVars, retryVars, applied>>

\* reader.ReadString: the client's line arrives after d seconds, or the read
\* deadline passes first and the read returns a timeout
ReadCommand ==
    \E d \in ClientDelays :
        /\ sock.at = "read"
        /\ now + d <= MaxSessionTime
        /\ IF After(now + d, sock.readDeadline)
           THEN /\ now' = sock.readDeadline
                /\ sock' = [sock EXCEPT !.at = "timeout"]
           ELSE /\ now' = now + d
                /\ sock' = [sock EXCEPT !.at = "reply"]
        /\ UNCHANGED <<handlerVars, TokenCache, getVars, sweepVars, listenVars, retryVars, applied>>

\* the reply to the line that was read is written and flushed
WriteReply ==
    /\ sock.at = "reply"
    /\ sock' = [sock EXCEPT !.at = "loop", !.lastWrite = [reply |-> "reply", fate |-> WriteAt(now, sock.writeDeadline)]]
    /\ UNCHANGED <<handlerVars, TokenCache, now, getVars, sweepVars, listenVars, retryVars, applied>>

\* the read timed out: 421 is written and the handler returns
WriteTimeout ==
    /\ sock.at = "timeout"
    /\ sock' = [sock EXCEPT !.at = "closed", !.lastWrite = [reply |-> "421", fate |-> WriteAt(now, sock.writeDeadline)]]
    /\ UNCHANGED <<handlerVars, TokenCache, now, getVars, sweepVars, listenVars, retryVars, applied>>

NextDeadline ==
    \/ HandlerStart
    \/ LoopSetReadDeadline
    \/ ReadCommand
    \/ WriteReply
    \/ WriteTimeout

SpecDeadline == InitDeadline /\ [][NextDeadline]_vars

\* C40: the reply to every command that arrived within its sixty seconds is
\* written to the client, however long the session has lasted: the deadline
\* of the socket is renewed with every command.
C40_RepliesOutliveConnectionTimeout ==
    (sock.at = "loop" /\ sock.lastWrite.reply = "reply") => sock.lastWrite.fate = "written"

====
